---- MODULE Spec2Model ----
(***************************************************************************)
(* fast-array-rs: FastArray, FastIterator and FastMatrix over hand-managed *)
(* buffers.                                                                *)
(*                                                                         *)
(* Memory world (Spec, SpecIter, SpecDE, SpecSplit): a heap of buffers     *)
(* whose slots hold element identities, a table of named containers, and   *)
(* the finalizations and deallocations each operation performs.            *)
(* Function world (SpecFn, SpecCtor, SpecMat, SpecDet, SpecSimd, SpecEq,   *)
(* SpecSwapLines, SpecSortDoc, SpecFill, SpecMatEq): one array / matrix    *)
(* value and the result of the one call made on it.                        *)
(***************************************************************************)
EXTENDS Integers, Sequences, FiniteSets, TLC

\* ------------------------------------------------------------------ bounds
MaxLen == 2      \* greatest length of a constructed FastArray
MaxDim == 2      \* greatest rows / columns of a constructed FastMatrix
MaxBuf == 2      \* buffers allocated in one run (one more when the last call splits)
MaxObj == 2      \* containers named at the same time
FinCap == 2      \* finalization / deallocation counts saturate here
MaxSortLen == 4  \* greatest length of an array value that is sorted, swapped, indexed
MaxVal == 2      \* element values of an array value are 0..MaxVal
MaxEntry == 1    \* entries of a matrix value are 0..MaxEntry
MaxSimdLen == 9  \* greatest length of an array given to simd_add / simd_add_array

Handles == 1..MaxObj
Bufs    == 1..(MaxBuf + 1)
MaxCells == IF MaxLen > MaxDim * MaxDim THEN MaxLen ELSE MaxDim * MaxDim
Elems   == 1..(MaxBuf * MaxCells)

VARIABLES
    heap,      \* heap[b]: the buffer b (state, layout, slot contents, deallocations)
    objs,      \* objs[h]: the container named h
    fin,       \* fin[e]: how many times element e was finalized (drop_in_place)
    moved,     \* slots whose value was moved out with ptr::read
    out,       \* out[h]: the values the iterator h returned, in order
    origin,    \* origin[h]: the elements of the array h was when as_fast_iterator ran
    status,    \* "ok", "ub" (undefined behaviour executed, no abort), "crashed"
    last,      \* what the last operation did
    arr,       \* function world: the array
    mat,       \* function world: the matrix
    res        \* function world: the last call and its result

memVars == <<heap, objs, fin, moved, out, origin, status, last>>
fnVars  == <<arr, mat, res>>
vars    == <<heap, objs, fin, moved, out, origin, status, last, arr, mat, res>>

\* ---------------------------------------------------------------- pointers
Null == [b |-> 0, off |-> 0]
PtrAdd(p, i) == [b |-> p.b, off |-> p.off + i]

NoBuf == [state |-> "unalloc", n |-> 0, layout |-> [count |-> 0, align |-> "none"],
          slots |-> <<>>, freed_with |-> <<>>]
NoObj == [kind |-> "none"]
NoEffects == [reads |-> <<>>, fins |-> <<>>, frees |-> <<>>]
NoLast == [op |-> "init", h |-> 0, eff |-> NoEffects, ret |-> <<>>, pre |-> NoObj,
           pre_out |-> <<>>, panic |-> FALSE]

Min(a, b) == IF a < b THEN a ELSE b

\* the layout of Layout::from_size_align(len * size_of::<T>(), 32)
Layout32(len) == [count |-> len, align |-> "align32"]
\* the layout of Layout::array::<T>(len): the natural alignment of T
LayoutArray(len) == [count |-> len, align |-> "alignT"]

FreeBufs(hp) == {b \in Bufs : hp[b].state = "unalloc"}
NewBuf(hp) == CHOOSE b \in FreeBufs(hp) : \A c \in FreeBufs(hp) : b <= c
\* a run allocates MaxBuf buffers, or one fewer and then the two halves of a split
Room(hp) == Cardinality(FreeBufs(hp)) > 1
UsedElems(hp) == UNION {{hp[b].slots[i] : i \in DOMAIN hp[b].slots} : b \in Bufs}
FreshBase(hp) == IF UsedElems(hp) = {} THEN 0
                 ELSE CHOOSE e \in UsedElems(hp) : \A f \in UsedElems(hp) : f <= e

\* alloc(layout) followed by writes of elems into slots 0..len-1
Alloc(hp, layout, elems) ==
    [hp EXCEPT ![NewBuf(hp)] = [state |-> "alloc", n |-> layout.count, layout |-> layout,
                                slots |-> elems, freed_with |-> <<>>]]

\* the address names a slot of a buffer that was allocated (live or freed)
Resolves(hp, a) == a.b \in Bufs /\ hp[a.b].state # "unalloc" /\ a.off \in 0..(hp[a.b].n - 1)
ElemAt(hp, a) == hp[a.b].slots[a.off + 1]
\* the address names a slot of a live buffer holding a value nobody moved or finalized
LiveSlot(hp, fn, mv, a) ==
    /\ Resolves(hp, a)
    /\ hp[a.b].state = "alloc"
    /\ a \notin mv
    /\ fn[ElemAt(hp, a)] = 0
\* dealloc of a live buffer at its base address
GoodFree(hp, f) == f.addr.b \in Bufs /\ hp[f.addr.b].state = "alloc" /\ f.addr.off = 0

\* the elements a container's buffer holds from its pointer on
ElemsOf(hp, p, n) == [i \in 1..n |-> IF Resolves(hp, PtrAdd(p, i - 1))
                                      THEN ElemAt(hp, PtrAdd(p, i - 1)) ELSE 0]

\* ------------------------------------------------------------- destructors
\* Drop for FastArray
DropFastArray(a) ==
    IF a.pointer # Null
    THEN [reads |-> <<>>,
          fins  |-> [i \in 1..a.size |-> PtrAdd(a.pointer, i - 1)],
          frees |-> << [addr |-> a.pointer, layout |-> Layout32(a.size)] >>]
    ELSE NoEffects

\* Drop for FastIterator as it would be with the buffer freed at the current pointer
DropFastIterator_at_current(it) ==
    LET len == it.len - it.current_index[1]
    IN  [reads |-> <<>>,
         fins  |-> [i \in 1..len |-> PtrAdd(it.pointer, i - 1)],
         frees |-> << [addr |-> it.pointer, layout |-> LayoutArray(it.len)] >>]

\* Drop for FastIterator
DropFastIterator(it) ==
    LET len == it.len - it.current_index[1]
    IN  [reads |-> <<>>,
         fins  |-> [i \in 1..len |-> PtrAdd(it.pointer, i - 1)],
         frees |-> << [addr |-> PtrAdd(it.pointer, 0 - it.current_index[1]),
                       layout |-> LayoutArray(it.len)] >>]

\* Drop for FastMatrix
DropFastMatrix(m) ==
    IF m.pointer # Null
    THEN [reads |-> <<>>,
          fins  |-> <<>>,
          frees |-> << [addr |-> m.pointer, layout |-> LayoutArray(m.rows * m.columns)] >>]
    ELSE NoEffects

DropOf(o) ==
    CASE o.kind = "FastArray"    -> DropFastArray(o)
      [] o.kind = "FastIterator" -> DropFastIterator(o)
      [] o.kind = "FastMatrix"   -> DropFastMatrix(o)
      [] OTHER                   -> NoEffects

Cat(e1, e2) == [reads |-> e1.reads \o e2.reads, fins |-> e1.fins \o e2.fins,
                frees |-> e1.frees \o e2.frees]

\* ------------------------------------------------- effects on the memory
FinCount(hp, fins, e) ==
    Cardinality({i \in DOMAIN fins : Resolves(hp, fins[i]) /\ ElemAt(hp, fins[i]) = e})
FinAfter(fn, hp, fins) == [e \in Elems |-> Min(fn[e] + FinCount(hp, fins, e), FinCap)]

FreesOf(frees, b) == SelectSeq(frees, LAMBDA f : f.addr.b = b)
Capped(s) == IF Len(s) > FinCap THEN SubSeq(s, 1, FinCap) ELSE s
HeapAfter(hp, frees) ==
    [b \in Bufs |->
        IF FreesOf(frees, b) = <<>> \/ hp[b].state = "unalloc" THEN hp[b]
        ELSE [hp[b] EXCEPT !.state = "freed",
                           !.freed_with = Capped(@ \o [i \in 1..Len(FreesOf(frees, b)) |->
                                                         FreesOf(frees, b)[i].layout])]]

MovedAfter(mv, reads) == mv \cup {reads[i] : i \in DOMAIN reads}

\* every read, finalization and deallocation of the operation is a defined one
Defined(hp, fn, mv, eff) ==
    /\ \A i \in DOMAIN eff.reads : LiveSlot(hp, fn, mv, eff.reads[i])
    /\ \A i \in DOMAIN eff.fins  : LiveSlot(hp, fn, MovedAfter(mv, eff.reads), eff.fins[i])
    /\ \A i, j \in DOMAIN eff.fins : i # j => eff.fins[i] # eff.fins[j]
    /\ \A i \in DOMAIN eff.frees : GoodFree(hp, eff.frees[i])
    /\ \A i, j \in DOMAIN eff.frees : i # j => eff.frees[i].addr.b # eff.frees[j].addr.b

\* An operation that executes undefined behaviour either aborts the process or
\* goes on with the memory as the operation left it.
Outcomes(hp, eff) ==
    IF Defined(hp, fin, moved, eff) THEN {status} ELSE {"ub", "crashed"}

\* hp: the heap after the operation's allocations and writes, before its frees
Commit(newObjs, hp, eff, newOut, newOrigin, lg) ==
    \E st \in Outcomes(heap, eff) :
        /\ status' = st
        /\ last' = [lg EXCEPT !.eff = eff]
        /\ IF st = "crashed"
           THEN UNCHANGED <<heap, objs, fin, moved, out, origin>>
           ELSE /\ objs' = newObjs
                /\ heap' = HeapAfter(hp, eff.frees)
                /\ fin' = FinAfter(fin, hp, eff.fins)
                /\ moved' = MovedAfter(moved, eff.reads)
                /\ out' = newOut
                /\ origin' = newOrigin
        /\ UNCHANGED fnVars

\* the record of an operation on h: its name, the container and the values it had
\* returned before the call, what the call returned
Log(op, h, ret) == [op |-> op, h |-> h, eff |-> NoEffects, ret |-> ret, pre |-> objs[h],
                    pre_out |-> out[h], panic |-> FALSE]

\* nothing is said about a run once it has executed undefined behaviour
Running == status = "ok"
Free(h) == objs[h].kind = "none"
\* a new container takes the first unused name
FirstFree(h) == Free(h) /\ \A g \in Handles : g < h => ~Free(g)

\* ------------------------------------------------------------ constructors
\* FastArray::new_func(len, func): func yields len fresh values
NewFunc(h, len) ==
    /\ Running /\ FirstFree(h) /\ Room(heap)
    /\ len # 0
    /\ LET elems == [i \in 1..len |-> FreshBase(heap) + i]
           a == [kind |-> "FastArray", pointer |-> [b |-> NewBuf(heap), off |-> 0],
                 size |-> len]
       IN Commit([objs EXCEPT ![h] = a], Alloc(heap, Layout32(len), elems), NoEffects,
                 [out EXCEPT ![h] = <<>>], [origin EXCEPT ![h] = <<>>],
                 Log("new_func", h, <<>>))

\* FastMatrix::new(rows, columns, fill_value): rows*columns clones of fill_value
MatrixNew(h, rows, columns) ==
    /\ Running /\ FirstFree(h) /\ Room(heap)
    /\ rows # 0 /\ columns # 0
    /\ LET elems == [i \in 1..(rows * columns) |-> FreshBase(heap) + i]
           m == [kind |-> "FastMatrix", pointer |-> [b |-> NewBuf(heap), off |-> 0],
                 rows |-> rows, columns |-> columns]
       IN Commit([objs EXCEPT ![h] = m], Alloc(heap, Layout32(rows * columns), elems),
                 NoEffects, [out EXCEPT ![h] = <<>>], [origin EXCEPT ![h] = <<>>],
                 Log("matrix_new", h, <<>>))

\* --------------------------------------------------------------- iterator
\* current_index is the pair the conversions read (current_index.0, current_index.1);
\* Iterator::next, Drop and len are written against a single count, the first one.

\* Iterator::next as it would be with the pointer left where it is
next_no_advance(it, hp) ==
    IF it.current_index[1] >= it.len
    THEN [it |-> it, ret |-> <<"None">>, reads |-> <<>>]
    ELSE [it |-> [it EXCEPT !.current_index = <<it.current_index[1] + 1, it.current_index[2]>>],
          ret |-> <<"Some", IF Resolves(hp, it.pointer) THEN ElemAt(hp, it.pointer) ELSE 0>>,
          reads |-> <<it.pointer>>]

\* Iterator::next for FastIterator
next(it, hp) ==
    IF it.current_index[1] >= it.len
    THEN [it |-> it, ret |-> <<"None">>, reads |-> <<>>]
    ELSE [it |-> [it EXCEPT !.pointer = PtrAdd(it.pointer, 1),
                            !.current_index = <<it.current_index[1] + 1, it.current_index[2]>>],
          ret |-> <<"Some", IF Resolves(hp, it.pointer) THEN ElemAt(hp, it.pointer) ELSE 0>>,
          reads |-> <<it.pointer>>]

\* DoubleEndedIterator::next_back for FastIterator (spec section 4.3)
next_back(it, hp) ==
    IF it.current_index[1] + it.current_index[2] >= it.len
    THEN [it |-> it, ret |-> <<"None">>, reads |-> <<>>]
    ELSE LET slot == PtrAdd(it.pointer,
                            (it.len - 1 - it.current_index[2]) - it.current_index[1])
         IN [it |-> [it EXCEPT !.current_index = <<it.current_index[1],
                                                   it.current_index[2] + 1>>],
             ret |-> <<"Some", IF Resolves(hp, slot) THEN ElemAt(hp, slot) ELSE 0>>,
             reads |-> <<slot>>]

\* ExactSizeIterator::len for FastIterator
ExactLen(it) == it.len

\* Iterator::size_hint for FastIterator
size_hint(it) == <<it.len, it.len>>

\* k successive calls of next().unwrap(): the values, the slots read, the iterator left
RECURSIVE Drain(_, _, _)
Drain(it, hp, k) ==
    IF k = 0 THEN [it |-> it, vals |-> <<>>, reads |-> <<>>, none |-> FALSE]
    ELSE LET r == next(it, hp)
         IN IF r.ret = <<"None">>
            THEN [it |-> r.it, vals |-> <<>>, reads |-> <<>>, none |-> TRUE]
            ELSE LET d == Drain(r.it, hp, k - 1)
                 IN [it |-> d.it, vals |-> <<r.ret[2]>> \o d.vals,
                     reads |-> r.reads \o d.reads, none |-> d.none]

Next_(h) ==
    /\ Running /\ objs[h].kind = "FastIterator"
    /\ LET r == next(objs[h], heap)
       IN Commit([objs EXCEPT ![h] = r.it], heap, [NoEffects EXCEPT !.reads = r.reads],
                 [out EXCEPT ![h] = IF r.ret = <<"None">> THEN @ ELSE Append(@, r.ret[2])],
                 origin, Log("next", h, r.ret))

NextBack(h) ==
    /\ Running /\ objs[h].kind = "FastIterator"
    /\ LET r == next_back(objs[h], heap)
       IN Commit([objs EXCEPT ![h] = r.it], heap, [NoEffects EXCEPT !.reads = r.reads],
                 [out EXCEPT ![h] = IF r.ret = <<"None">> THEN @ ELSE Append(@, r.ret[2])],
                 origin, Log("next_back", h, r.ret))

\* ------------------------------------------------------------- conversions
\* FastArray::as_fast_iterator: the array is left with a null pointer and dropped
as_fast_iterator(a) ==
    [new  |-> [kind |-> "FastIterator", pointer |-> a.pointer, len |-> a.size,
               current_index |-> <<0, 0>>],
     husk |-> [a EXCEPT !.pointer = Null]]

AsFastIterator(h) ==
    /\ Running /\ objs[h].kind = "FastArray"
    /\ LET c == as_fast_iterator(objs[h])
       IN Commit([objs EXCEPT ![h] = c.new], heap, DropOf(c.husk),
                 [out EXCEPT ![h] = <<>>],
                 [origin EXCEPT ![h] = ElemsOf(heap, objs[h].pointer, objs[h].size)],
                 Log("as_fast_iterator", h, <<>>))

\* FastMatrix::into_fast_iter: the matrix is left with a null pointer and dropped
into_fast_iter(m) ==
    [new  |-> [kind |-> "FastIterator", pointer |-> m.pointer, len |-> m.columns * m.rows,
               current_index |-> <<0, 0>>],
     husk |-> [m EXCEPT !.pointer = Null]]

IntoFastIter(h) ==
    /\ Running /\ objs[h].kind = "FastMatrix"
    /\ LET c == into_fast_iter(objs[h])
       IN Commit([objs EXCEPT ![h] = c.new], heap, DropOf(c.husk),
                 [out EXCEPT ![h] = <<>>], [origin EXCEPT ![h] = <<>>],
                 Log("into_fast_iter", h, <<>>))

\* into_fast_array as it would be with the new length taken from len alone
into_fast_array_full_len(it, hp) ==
    LET size == it.len
    IN  IF it.current_index[1] = 0 /\ it.current_index[2] = 0
        THEN [arr |-> [kind |-> "FastArray", pointer |-> it.pointer, size |-> size],
              alloc |-> FALSE, vals |-> <<>>, reads |-> <<>>,
              self |-> [it EXCEPT !.pointer = Null], panic |-> FALSE]
        ELSE LET d == Drain(it, hp, size)
             IN [arr |-> [kind |-> "FastArray", pointer |-> [b |-> NewBuf(hp), off |-> 0],
                          size |-> size],
                 alloc |-> TRUE, vals |-> d.vals, reads |-> d.reads,
                 self |-> d.it, panic |-> d.none]

\* FastIterator::into_fast_array. The result: the array (or none after a panic), the
\* buffer it allocates (or none), the values written there, the slots read, and the
\* iterator value that is dropped when the method returns or unwinds.
into_fast_array(it, hp) ==
    LET size == (it.len - it.current_index[1]) - it.current_index[2]
    IN  IF it.current_index[1] = 0 /\ it.current_index[2] = 0
        THEN [arr |-> [kind |-> "FastArray", pointer |-> it.pointer, size |-> size],
              alloc |-> FALSE, vals |-> <<>>, reads |-> <<>>,
              self |-> [it EXCEPT !.pointer = Null], panic |-> FALSE]
        ELSE IF size = 0                       \* assert!(len != 0) of new_func
        THEN [arr |-> NoObj, alloc |-> FALSE, vals |-> <<>>, reads |-> <<>>,
              self |-> it, panic |-> TRUE]
        ELSE LET d == Drain(it, hp, size)
             IN [arr |-> [kind |-> "FastArray", pointer |-> [b |-> NewBuf(hp), off |-> 0],
                          size |-> size],
                 alloc |-> TRUE, vals |-> d.vals, reads |-> d.reads,
                 self |-> d.it, panic |-> d.none]

IntoFastArray(h) ==
    /\ Running /\ objs[h].kind = "FastIterator"
    /\ Room(heap)
    /\ LET c == into_fast_array(objs[h], heap)
           hp == IF c.alloc THEN Alloc(heap, Layout32(c.arr.size), c.vals) ELSE heap
       IN Commit([objs EXCEPT ![h] = IF c.panic THEN NoObj ELSE c.arr], hp,
                 Cat([NoEffects EXCEPT !.reads = c.reads], DropOf(c.self)),
                 [out EXCEPT ![h] = <<>>], origin,
                 [Log("into_fast_array", h, <<>>) EXCEPT !.panic = c.panic])

\* #[derive(Clone)] on FastArray, FastIterator and FastMatrix: every field is copied
Clone(h, g) ==
    /\ Running /\ ~Free(h) /\ FirstFree(g)
    /\ Commit([objs EXCEPT ![g] = objs[h]], heap, NoEffects,
              [out EXCEPT ![g] = out[h]], [origin EXCEPT ![g] = origin[h]],
              Log("clone", h, <<>>))

\* the container goes out of scope
Drop(h) ==
    /\ Running /\ ~Free(h)
    /\ Commit([objs EXCEPT ![h] = NoObj], heap, DropOf(objs[h]),
              [out EXCEPT ![h] = <<>>], [origin EXCEPT ![h] = <<>>],
              Log("drop", h, <<>>))

\* ---------------------------------------------------------- specifications
MemInit ==
    /\ heap = [b \in Bufs |-> NoBuf]
    /\ objs = [h \in Handles |-> NoObj]
    /\ fin = [e \in Elems |-> 0]
    /\ moved = {}
    /\ out = [h \in Handles |-> <<>>]
    /\ origin = [h \in Handles |-> <<>>]
    /\ status = "ok"
    /\ last = NoLast

FnIdle ==
    /\ arr = <<>>
    /\ mat = <<>>
    /\ res = <<>>

Init == MemInit /\ FnIdle

Next ==
    \/ \E h \in Handles, len \in 1..MaxLen : NewFunc(h, len)
    \/ \E h \in Handles, rows \in 1..MaxDim, columns \in 1..MaxDim : MatrixNew(h, rows, columns)
    \/ \E h \in Handles : AsFastIterator(h)
    \/ \E h \in Handles : IntoFastIter(h)
    \/ \E h \in Handles : IntoFastArray(h)
    \/ \E h \in Handles : Next_(h)
    \/ \E h, g \in Handles : Clone(h, g)
    \/ \E h \in Handles : Drop(h)

\* the containers as the source has them: a front cursor only
Spec == Init /\ [][Next]_vars

NextIter ==
    \/ \E h \in Handles, len \in 1..MaxLen : NewFunc(h, len)
    \/ \E h \in Handles : AsFastIterator(h)
    \/ \E h \in Handles : IntoFastArray(h)
    \/ \E h \in Handles : Next_(h)
    \/ \E h \in Handles : Drop(h)

\* arrays and the iterators made from them
SpecIter == Init /\ [][NextIter]_vars

NextDE ==
    \/ \E h \in Handles, len \in 1..MaxLen : NewFunc(h, len)
    \/ \E h \in Handles : AsFastIterator(h)
    \/ \E h \in Handles : IntoFastArray(h)
    \/ \E h \in Handles : Next_(h)
    \/ \E h \in Handles : NextBack(h)
    \/ \E h \in Handles : Drop(h)

\* arrays and their iterators, with the backward step of the double-ended iterator
SpecDE == Init /\ [][NextDE]_vars

\* ------------------------------------------------------- claims C1 .. C7
IsIter(h) == objs[h].kind = "FastIterator"
Holders(b) == {h \in Handles : ~Free(h) /\ objs[h].pointer.b = b}
Remaining(it) == it.len - it.current_index[1] - it.current_index[2]
\* the slots lo..hi-1 of buffer b, in ascending order
Slots(b, lo, hi) == [i \in 1..(hi - lo) |-> [b |-> b, off |-> lo + i - 1]]
NoDup(s) == \A i, j \in DOMAIN s : i # j => s[i] # s[j]
ZeroCopyBack == last.op = "into_fast_array" /\ last.pre.current_index = <<0, 0>>

\* C1: an array converted with as_fast_iterator and at once back with into_fast_array
\* is an array of the same elements in the same order; the round trip finalizes
\* nothing, frees nothing and leaves every element live.
C1_RoundTripKeepsElements ==
    (ZeroCopyBack /\ origin[last.h] # <<>> /\ last.pre_out = <<>>) =>
        /\ status = "ok"
        /\ objs[last.h].kind = "FastArray"
        /\ objs[last.h].size = Len(origin[last.h])
        /\ ElemsOf(heap, objs[last.h].pointer, objs[last.h].size) = origin[last.h]
        /\ last.eff.fins = <<>> /\ last.eff.frees = <<>>
        /\ \A i \in DOMAIN origin[last.h] : fin[origin[last.h][i]] = 0

\* C2: every allocated buffer is held by exactly one container and is released exactly
\* once; the container a conversion leaves behind finalizes and frees nothing.
C2_OneOwnerOneRelease ==
    /\ \A b \in Bufs : heap[b].state = "alloc" => Cardinality(Holders(b)) = 1
    /\ \A b \in Bufs : heap[b].state = "freed" => Len(heap[b].freed_with) = 1 /\ Holders(b) = {}
    /\ (last.op \in {"as_fast_iterator", "into_fast_iter"} \/ ZeroCopyBack) =>
           last.eff.fins = <<>> /\ last.eff.frees = <<>>

\* the iterator last.pre, which had returned last.pre_out, was destroyed by the last
\* operation while it held its buffer
IterDestroyed ==
    /\ status # "crashed"
    /\ last.pre.kind = "FastIterator"
    /\ \/ last.op = "drop"
       \/ last.op = "into_fast_array" /\ ~ZeroCopyBack

\* the number of values the destroyed iterator had handed out when its destructor ran
ConsumedAtDrop ==
    IF last.op = "drop" THEN Len(last.pre_out)
    ELSE IF last.panic THEN Len(last.pre_out)
    ELSE Len(last.pre_out) + Len(last.eff.reads)

\* C3: the destructor of an iterator of length n that handed out k values finalizes
\* exactly the slots k..n-1 of its buffer, each once, and frees the buffer at its base.
C3_DropFinalizesUnconsumed ==
    IterDestroyed =>
        /\ last.eff.fins = Slots(last.pre.pointer.b, ConsumedAtDrop, last.pre.len)
        /\ NoDup(last.eff.fins)
        /\ Len(last.eff.frees) = 1
        /\ last.eff.frees[1].addr = [b |-> last.pre.pointer.b, off |-> 0]

C3_Witness ==
    /\ status = "ok" /\ last.op = "drop" /\ last.pre.kind = "FastIterator"
    /\ Len(last.pre_out) >= 1 /\ Len(last.pre_out) < last.pre.len
    /\ Len(last.eff.fins) = last.pre.len - Len(last.pre_out)
    /\ \A i \in DOMAIN last.pre_out : fin[last.pre_out[i]] = 0

\* C4: the length an iterator declares (len() and both bounds of size_hint()) is
\* length - consumed_from_front - consumed_from_back.
C4_DeclaredLengthIsRemaining ==
    \A h \in Handles : IsIter(h) =>
        /\ ExactLen(objs[h]) = Remaining(objs[h])
        /\ size_hint(objs[h]) = <<Remaining(objs[h]), Remaining(objs[h])>>

\* C5: next() returns the elements of the buffer in ascending slot order, each once,
\* advancing the front cursor by one; once all are returned it returns None and
\* changes nothing.
C5_NextInOrder ==
    /\ \A h \in Handles : (IsIter(h) /\ status # "crashed") =>
          /\ Len(out[h]) <= objs[h].len
          /\ objs[h].current_index[1] = Len(out[h])
          /\ out[h] = SubSeq(heap[objs[h].pointer.b].slots, 1, Len(out[h]))
    /\ (last.op = "next" /\ status # "crashed" /\ last.ret # <<"None">>) =>
          /\ out[last.h] = Append(last.pre_out, last.ret[2])
          /\ last.ret[2] = heap[last.pre.pointer.b].slots[Len(last.pre_out) + 1]
    /\ (last.op = "next" /\ status # "crashed" /\ last.ret = <<"None">>) =>
          /\ Len(last.pre_out) = last.pre.len
          /\ objs[last.h] = last.pre
          /\ out[last.h] = last.pre_out

C5_Witness ==
    /\ status = "ok" /\ last.op = "next" /\ last.ret = <<"None">>
    /\ Len(out[last.h]) = MaxLen
    /\ last.pre_out = out[last.h]

\* C6: whatever the interleaving of next() and next_back(), no element is returned
\* twice, next() returns slot consumed_from_front and next_back() returns slot
\* length - 1 - consumed_from_back, the cursors never cross, and after n values both
\* report exhaustion.
C6_EachElementOnce ==
    /\ \A h \in Handles : (IsIter(h) /\ status # "crashed") =>
          /\ NoDup(out[h])
          /\ objs[h].current_index[1] + objs[h].current_index[2] <= objs[h].len
          /\ Len(out[h]) = objs[h].current_index[1] + objs[h].current_index[2]
    /\ (last.op = "next" /\ status # "crashed") =>
          IF Remaining(last.pre) = 0 THEN last.ret = <<"None">>
          ELSE last.ret = <<"Some", heap[last.pre.pointer.b].slots[last.pre.current_index[1] + 1]>>
    /\ (last.op = "next_back" /\ status # "crashed") =>
          IF Remaining(last.pre) = 0 THEN last.ret = <<"None">>
          ELSE last.ret = <<"Some", heap[last.pre.pointer.b].slots[
                                        last.pre.len - last.pre.current_index[2]]>>

\* C7: dropping a matrix that owns its buffer finalizes each of its rows*columns
\* elements once and then frees the buffer, as dropping an array does for its
\* length elements.
C7_MatrixDropFinalizesAll ==
    /\ (last.op = "drop" /\ last.pre.kind = "FastMatrix" /\ last.pre.pointer # Null) =>
          /\ last.eff.fins = Slots(last.pre.pointer.b, 0, last.pre.rows * last.pre.columns)
          /\ Len(last.eff.frees) = 1 /\ last.eff.frees[1].addr = last.pre.pointer
    /\ (last.op = "drop" /\ last.pre.kind = "FastArray" /\ last.pre.pointer # Null) =>
          /\ last.eff.fins = Slots(last.pre.pointer.b, 0, last.pre.size)
          /\ Len(last.eff.frees) = 1 /\ last.eff.frees[1].addr = last.pre.pointer

\* ---------------------------------------------------------- function world
\* An array value: size and the content of its buffer, slot i at data[i + 1].
\* A matrix value: rows, columns and the content of its buffer in row-major order.
Vals == 0..MaxVal
NoCall == [op |-> "none"]

\* a call of usize arithmetic that went below zero or an access outside the buffer
\* ends the call with a panic; the container then stays as the call left it
Ok(a) == [a |-> a, panic |-> FALSE]
Panic(a) == [a |-> a, panic |-> TRUE]

\* Index<usize> / IndexMut<usize> for FastArray: the slot addressed
index(a, i) ==
    IF ~(~(i >= a.size)) THEN [panic |-> TRUE, slot |-> 0 - 1]
    ELSE [panic |-> FALSE, slot |-> i]

\* the matrix accessor as it would be with the column left unchecked
matrix_index_rows_only(m, r, c) ==
    IF ~(r < m.rows) THEN [panic |-> TRUE, slot |-> 0 - 1]
    ELSE [panic |-> FALSE, slot |-> r * m.columns + c]

\* Index<(usize, usize)> / IndexMut<(usize, usize)> for FastMatrix: the slot addressed
matrix_index(m, r, c) ==
    IF ~(r < m.rows /\ c < m.columns) THEN [panic |-> TRUE, slot |-> 0 - 1]
    ELSE [panic |-> FALSE, slot |-> r * m.columns + c]

\* FastArray::get_mut_pointer
get_mut_pointer(a, i) ==
    IF ~(a.size > i) THEN [panic |-> TRUE, slot |-> 0 - 1]
    ELSE [panic |-> FALSE, slot |-> i]

\* ptr::swap as it would be when only the first slot is written
PtrSwap_one_way(data, s1, s2) ==
    [k \in DOMAIN data |-> IF k = s1 + 1 THEN data[s2 + 1] ELSE data[k]]

\* ptr::swap of two slots of the buffer
PtrSwap(data, s1, s2) ==
    [k \in DOMAIN data |-> IF k = s1 + 1 THEN data[s2 + 1]
                           ELSE IF k = s2 + 1 THEN data[s1 + 1] ELSE data[k]]

\* FastArray::swap as it would be with a copy in place of the exchange
swap_overwrite(a, index1, index2) ==
    IF ~(a.size > index1 /\ a.size > index2) THEN Panic(a)
    ELSE Ok([a EXCEPT !.data[index1 + 1] = a.data[index2 + 1]])

\* FastArray::swap
swap(a, index1, index2) ==
    IF ~(a.size > index1 /\ a.size > index2) THEN Panic(a)
    ELSE LET p1 == get_mut_pointer(a, index1)
             p2 == get_mut_pointer(a, index2)
         IN IF p1.panic \/ p2.panic THEN Panic(a)
            ELSE Ok([a EXCEPT !.data = PtrSwap(a.data, p1.slot, p2.slot)])

\* the comparators: a.cmp(&b) of sort(), and b.cmp(&a) as an example of sort_by()
Cmp(x, y) == IF x < y THEN "Less" ELSE IF x = y THEN "Equal" ELSE "Greater"
sort_func(f, x, y) == IF f = "natural" THEN Cmp(x, y) ELSE Cmp(y, x)

\* the loop `for j in left..=right - 1` of partition, from j on; i is the last slot
\* of the part not Greater than the pivot
RECURSIVE PartitionLoop(_, _, _, _, _)
PartitionLoop(s, i, j, right, f) ==
    IF j > right - 1 \/ s.panic THEN [s |-> s, i |-> i]
    ELSE LET ej == index(s.a, j)
             ep == index(s.a, right)
         IN IF ej.panic \/ ep.panic THEN [s |-> Panic(s.a), i |-> i]
            ELSE IF sort_func(f, s.a.data[ej.slot + 1], s.a.data[ep.slot + 1]) = "Greater"
                 THEN PartitionLoop(s, i, j + 1, right, f)
                 ELSE PartitionLoop(swap(s.a, i + 1, j), i + 1, j + 1, right, f)

\* partition as it would be without the final swap that places the pivot
partition_pivot_left(s, left, right, f) ==
    LET l == PartitionLoop(s, left - 1, left, right, f)
    IN  [s |-> l.s, idx |-> l.i + 1]

\* partition
partition(s, left, right, f) ==
    LET l == PartitionLoop(s, left - 1, left, right, f)
    IN  IF l.s.panic THEN [s |-> l.s, idx |-> l.i + 1]
        ELSE [s |-> swap(l.s.a, l.i + 1, right), idx |-> l.i + 1]

\* the number of slots of the range left..right
RangeLen(left, right) == IF left <= right THEN right - left + 1 ELSE 0

\* _quicksort; depth is the number of nested calls still allowed, and a call made
\* with none left is reported as non-terminating; grew says that some call recursed
\* on a range that is not shorter than its own
RECURSIVE _quicksort(_, _, _, _, _)

\* _quicksort as it would be with the pivot kept in the left part
_quicksort_keep_pivot(s, left, right, f, depth) ==
    IF s.panic \/ s.diverged THEN s
    ELSE IF depth = 0 THEN [s EXCEPT !.diverged = TRUE]
    ELSE IF left <= right
    THEN LET p  == partition([a |-> s.a, panic |-> s.panic], 0, right, f)
             s0 == [a |-> p.s.a, panic |-> p.s.panic, diverged |-> FALSE,
                    grew |-> \/ s.grew
                             \/ RangeLen(left, p.idx) >= RangeLen(left, right)
                             \/ RangeLen(p.idx + 1, right) >= RangeLen(left, right)]
             s1 == _quicksort(s0, left, p.idx, f, depth - 1)
         IN _quicksort(s1, p.idx + 1, right, f, depth - 1)
    ELSE s

_quicksort(s, left, right, f, depth) ==
    IF s.panic \/ s.diverged THEN s
    ELSE IF depth = 0 THEN [s EXCEPT !.diverged = TRUE]
    ELSE IF left <= right
    THEN LET p  == partition([a |-> s.a, panic |-> s.panic], 0, right, f)
             s0 == [a |-> p.s.a, panic |-> p.s.panic, diverged |-> FALSE,
                    grew |-> \/ s.grew
                             \/ RangeLen(left, p.idx - 1) >= RangeLen(left, right)
                             \/ RangeLen(p.idx + 1, right) >= RangeLen(left, right)]
             s1 == _quicksort(s0, left, p.idx - 1, f, depth - 1)
         IN _quicksort(s1, p.idx + 1, right, f, depth - 1)
    ELSE s

\* quicksort / quicksort_custom_sort
quicksort(a, f) ==
    _quicksort([a |-> a, panic |-> FALSE, diverged |-> FALSE, grew |-> FALSE],
               0, a.size - 1, f, a.size + 2)

\* FastArray::sort and FastArray::sort_by
Sort(f) ==
    /\ res = NoCall /\ arr # <<>>
    /\ LET r == quicksort(arr, f)
       IN /\ arr' = r.a
          /\ res' = [op |-> IF f = "natural" THEN "sort" ELSE "sort_by", args |-> <<f>>,
                     pre |-> arr, panic |-> r.panic, diverged |-> r.diverged,
                     grew |-> r.grew]
    /\ UNCHANGED <<mat, memVars>>

Swap(i, j) ==
    /\ res = NoCall /\ arr # <<>>
    /\ LET r == swap(arr, i, j)
       IN /\ arr' = r.a
          /\ res' = [op |-> "swap", args |-> <<i, j>>, pre |-> arr, panic |-> r.panic]
    /\ UNCHANGED <<mat, memVars>>

\* &arr[i]
Index(i) ==
    /\ res = NoCall /\ arr # <<>>
    /\ LET r == index(arr, i)
       IN res' = [op |-> "index", args |-> <<i>>, pre |-> arr, panic |-> r.panic,
                  val |-> IF r.panic THEN <<>>
                          ELSE IF r.slot + 1 \in DOMAIN arr.data THEN <<arr.data[r.slot + 1]>>
                          ELSE <<"wild">>]
    /\ UNCHANGED <<arr, mat, memVars>>

\* arr[i] = v
IndexMut(i, v) ==
    /\ res = NoCall /\ arr # <<>>
    /\ LET r == index(arr, i)
       IN /\ res' = [op |-> "index_mut", args |-> <<i, v>>, pre |-> arr, panic |-> r.panic,
                     wild |-> ~r.panic /\ r.slot + 1 \notin DOMAIN arr.data]
          /\ arr' = IF ~r.panic /\ r.slot + 1 \in DOMAIN arr.data
                    THEN [arr EXCEPT !.data[r.slot + 1] = v] ELSE arr
    /\ UNCHANGED <<mat, memVars>>

\* &mat[(r, c)]
MatrixIndex(r, c) ==
    /\ res = NoCall /\ mat # <<>>
    /\ LET x == matrix_index(mat, r, c)
       IN res' = [op |-> "matrix_index", args |-> <<r, c>>, pre |-> mat, panic |-> x.panic,
                  val |-> IF x.panic THEN <<>>
                          ELSE IF x.slot + 1 \in DOMAIN mat.data THEN <<mat.data[x.slot + 1]>>
                          ELSE <<"wild">>,
                  slot |-> x.slot]
    /\ UNCHANGED <<arr, mat, memVars>>

\* mat[(r, c)] = v; the value written is one no slot of the start value holds
MatrixIndexMut(r, c, v) ==
    /\ res = NoCall /\ mat # <<>>
    /\ LET x == matrix_index(mat, r, c)
       IN /\ res' = [op |-> "matrix_index_mut", args |-> <<r, c, v>>, pre |-> mat,
                     panic |-> x.panic,
                     wild |-> ~x.panic /\ x.slot + 1 \notin DOMAIN mat.data]
          /\ mat' = IF ~x.panic /\ x.slot + 1 \in DOMAIN mat.data
                    THEN [mat EXCEPT !.data[x.slot + 1] = v] ELSE mat
    /\ UNCHANGED <<arr, memVars>>

Seqs(n) == [1..n -> Vals]
Arrays == {[size |-> n, data |-> d] : n \in 1..MaxSortLen, d \in UNION {Seqs(k) : k \in 1..MaxSortLen}}
ArrayValues == {a \in Arrays : Len(a.data) = a.size}
Entries == 0..MaxEntry
MatrixValues ==
    UNION {{[rows |-> r, columns |-> c, data |-> d] : d \in [1..(r * c) -> Entries]} :
           r \in 1..MaxDim, c \in 1..MaxDim}

\* the function world starts from any array value or from any matrix value and
\* applies one call to it; every value a call can leave behind is itself a start
FnInit ==
    /\ MemInit
    /\ res = NoCall
    /\ \/ arr \in ArrayValues /\ mat = <<>>
       \/ arr = <<>> /\ mat \in MatrixValues

FnNext ==
    \/ \E f \in {"natural", "reverse"} : Sort(f)
    \/ \E i, j \in 0..MaxSortLen : Swap(i, j)
    \/ \E i \in 0..(MaxSortLen + 1) : Index(i)
    \/ \E i \in 0..(MaxSortLen + 1), v \in Vals : IndexMut(i, v)
    \/ \E r, c \in 0..(MaxDim + 1) : MatrixIndex(r, c)
    \/ \E r, c \in 0..(MaxDim + 1) : MatrixIndexMut(r, c, MaxEntry + 1)

SpecFn == FnInit /\ [][FnNext]_vars

\* ------------------------------------------------------ claims C8 .. C10
\* no adjacent pair of the array is Greater under the comparator f
NonDecreasing(a, f) ==
    \A i \in 1..(a.size - 1) : sort_func(f, a.data[i], a.data[i + 1]) # "Greater"

C9_SwapExchangesTwo ==
    res.op = "swap" =>
        LET i == res.args[1]
            j == res.args[2]
        IN  IF i < res.pre.size /\ j < res.pre.size
            THEN /\ ~res.panic
                 /\ arr.size = res.pre.size
                 /\ arr.data[i + 1] = res.pre.data[j + 1]
                 /\ arr.data[j + 1] = res.pre.data[i + 1]
                 /\ \A k \in 1..arr.size : (k # i + 1 /\ k # j + 1) => arr.data[k] = res.pre.data[k]
                 /\ DOMAIN arr.data = DOMAIN res.pre.data
                 /\ (i = j => arr = res.pre)
            ELSE res.panic /\ arr = res.pre

C9_Witness ==
    /\ res.op = "swap" /\ ~res.panic
    /\ res.args[1] # res.args[2]
    /\ res.pre.data[res.args[1] + 1] # res.pre.data[res.args[2] + 1]
    /\ arr # res.pre

\* C10: the checked accessors panic for every array index >= length and every matrix
\* coordinate with row >= rows or column >= columns; an in-range matrix coordinate
\* addresses slot row*columns + column; no out-of-range access reads or writes a slot.
C10_CheckedAccess ==
    /\ res.op \in {"index", "index_mut"} =>
          /\ res.panic <=> res.args[1] >= res.pre.size
          /\ res.panic => arr = res.pre
          /\ (res.op = "index" /\ ~res.panic) => res.val = <<res.pre.data[res.args[1] + 1]>>
          /\ (res.op = "index" /\ res.panic) => res.val = <<>>
          /\ (res.op = "index_mut" /\ ~res.panic) =>
                arr = [res.pre EXCEPT !.data[res.args[1] + 1] = res.args[2]]
    /\ res.op \in {"matrix_index", "matrix_index_mut"} =>
          /\ res.panic <=> (res.args[1] >= res.pre.rows \/ res.args[2] >= res.pre.columns)
          /\ res.panic => mat = res.pre
          /\ (res.op = "matrix_index" /\ ~res.panic) =>
                /\ res.slot = res.args[1] * res.pre.columns + res.args[2]
                /\ res.val = <<res.pre.data[res.args[1] * res.pre.columns + res.args[2] + 1]>>
          /\ (res.op = "matrix_index" /\ res.panic) => res.val = <<>>
          /\ (res.op = "matrix_index_mut" /\ ~res.panic) =>
                mat = [res.pre EXCEPT
                          !.data[res.args[1] * res.pre.columns + res.args[2] + 1] = res.args[3]]

\* a column past the end of a row whose flat offset is a slot of the next row
C10_Witness ==
    /\ res.op = "matrix_index" /\ res.panic
    /\ res.args[1] < res.pre.rows /\ res.args[2] >= res.pre.columns
    /\ res.args[1] * res.pre.columns + res.args[2] < res.pre.rows * res.pre.columns

\* ------------------------------------------------------------ constructors
\* What a constructor call leaves: panic (an assertion failed, nothing is returned),
\* ub (the allocator was called with a layout of size zero), made (the container
\* returned, or <<>>) and calls (how many times the generator function ran).
NoContainer(c) == [panic |-> TRUE, ub |-> FALSE, made |-> <<>>, calls |-> c]
Made(x, c) == [panic |-> FALSE, ub |-> FALSE, made |-> <<x>>, calls |-> c]

\* `for i in 0..len { raw_ptr.add(i).write(func()) }` from i on: the slots written
\* so far are data, and func has run calls times; its k-th run returns outs[k]
RECURSIVE WriteLoop(_, _, _, _, _)
WriteLoop(data, i, len, outs, calls) ==
    IF i >= len THEN [data |-> data, calls |-> calls]
    ELSE WriteLoop([data EXCEPT ![i + 1] = outs[calls + 1]], i + 1, len, outs, calls + 1)

\* the buffer alloc returns: len slots not yet written
Uninit(len) == [k \in 1..len |-> "uninit"]
\* the buffer alloc_zeroed returns: len slots of zero bytes, the number 0 when read
Zeroed(len) == [k \in 1..len |-> 0]

\* FastArray::len
FastArray_len(a) == a.size

\* FastArray::new
FastArray_new(len, fill_value) ==
    IF ~(len # 0) THEN NoContainer(0)
    ELSE LET w == WriteLoop(Uninit(len), 0, len, [k \in 1..len |-> fill_value], 0)
         IN Made([size |-> len, data |-> w.data], 0)

\* FastArray::new_default; T::default() of a number is 0
FastArray_new_default(len) ==
    IF ~(len # 0) THEN NoContainer(0)
    ELSE LET w == WriteLoop(Uninit(len), 0, len, [k \in 1..len |-> 0], 0)
         IN Made([size |-> len, data |-> w.data], 0)

\* the loop of new_func as it would be when it fills the buffer from its last slot
RECURSIVE WriteLoopDown(_, _, _, _, _)
WriteLoopDown(data, i, len, outs, calls) ==
    IF i >= len THEN [data |-> data, calls |-> calls]
    ELSE WriteLoopDown([data EXCEPT ![len - i] = outs[calls + 1]], i + 1, len, outs, calls + 1)

FastArray_new_func_descending(len, outs) ==
    IF ~(len # 0) THEN NoContainer(0)
    ELSE LET w == WriteLoopDown(Uninit(len), 0, len, outs, 0)
         IN Made([size |-> len, data |-> w.data], w.calls)

\* FastArray::new_func
FastArray_new_func(len, outs) ==
    IF ~(len # 0) THEN NoContainer(0)
    ELSE LET w == WriteLoop(Uninit(len), 0, len, outs, 0)
         IN Made([size |-> len, data |-> w.data], w.calls)

\* FastArray::new_empty
FastArray_new_empty(len) ==
    IF ~(len # 0) THEN NoContainer(0)
    ELSE Made([size |-> len, data |-> Uninit(len)], 0)

\* FastIterator::new_func
FastIterator_new_func(len, outs) ==
    IF ~(len # 0) THEN NoContainer(0)
    ELSE LET w == WriteLoop(Uninit(len), 0, len, outs, 0)
         IN Made([len |-> len, current_index |-> 0, data |-> w.data], w.calls)

\* a matrix constructor past its assertions: alloc / alloc_zeroed with
\* rows * columns slots, which is a call with a zero-sized layout when a dimension
\* is zero; data is the content after the constructor's writes
MatrixMade(rows, columns, data, c) ==
    [panic |-> FALSE, ub |-> rows * columns = 0,
     made |-> <<[rows |-> rows, columns |-> columns, data |-> data]>>, calls |-> c]

\* FastMatrix::new
FastMatrix_new(rows, columns, fill_value) ==
    IF ~(rows # 0) THEN NoContainer(0)
    ELSE IF ~(columns # 0) THEN NoContainer(0)
    ELSE MatrixMade(rows, columns, [k \in 1..(rows * columns) |-> fill_value], 0)

\* FastMatrix::new_default
FastMatrix_new_default(rows, columns) ==
    IF ~(rows # 0 /\ columns # 0) THEN NoContainer(0)
    ELSE MatrixMade(rows, columns, [k \in 1..(rows * columns) |-> 0], 0)

\* the generator functions given to FastMatrix::new_func: func((row, col))
MatGens == {"row", "column", "slot"}
MatGen(g, columns, row, col) ==
    IF g = "row" THEN row ELSE IF g = "column" THEN col ELSE row * columns + col

\* FastMatrix::new_func: both assertions test rows
FastMatrix_new_func(rows, columns, g) ==
    IF ~(rows # 0) THEN NoContainer(0)
    ELSE IF ~(rows # 0) THEN NoContainer(0)
    ELSE MatrixMade(rows, columns,
                    [k \in 1..(rows * columns) |->
                        MatGen(g, columns, (k - 1) \div columns, (k - 1) % columns)],
                    rows * columns)

\* FastMatrix::new_empty
FastMatrix_new_empty(rows, columns) ==
    IF ~(rows # 0) THEN NoContainer(0)
    ELSE IF ~(columns # 0) THEN NoContainer(0)
    ELSE MatrixMade(rows, columns, Zeroed(rows * columns), 0)

\* what a call of the allocator with a zero-sized layout can do: hand back an
\* address (the constructor returns) or null (the constructor aborts)
AllocOutcomes(r) == IF r.ub THEN {"returned", "aborted"} ELSE {"done"}

\* one constructor call made from nothing; the container returned becomes arr / mat
\* (an iterator is kept in res only)
Construct(ctor, args, r) ==
    /\ res = NoCall /\ arr = <<>> /\ mat = <<>>
    /\ \E o \in AllocOutcomes(r) :
          LET returned == ~r.panic /\ o # "aborted"
          IN /\ res' = [op |-> ctor, args |-> args, panic |-> r.panic, ub |-> r.ub,
                        outcome |-> o, calls |-> r.calls,
                        made |-> IF returned THEN r.made ELSE <<>>]
             /\ arr' = IF returned /\ ctor \in {"FastArray::new", "FastArray::new_default",
                                                "FastArray::new_func", "FastArray::new_empty"}
                       THEN r.made[1] ELSE <<>>
             /\ mat' = IF returned /\ ctor \in {"FastMatrix::new", "FastMatrix::new_default",
                                                "FastMatrix::new_func", "FastMatrix::new_empty"}
                       THEN r.made[1] ELSE <<>>
    /\ UNCHANGED memVars

ArrayNew(len, v) == Construct("FastArray::new", <<len, v>>, FastArray_new(len, v))
ArrayNewDefault(len) == Construct("FastArray::new_default", <<len>>, FastArray_new_default(len))
ArrayNewFunc(len, outs) ==
    Construct("FastArray::new_func", <<len, outs>>, FastArray_new_func(len, outs))
ArrayNewEmpty(len) == Construct("FastArray::new_empty", <<len>>, FastArray_new_empty(len))
IterNewFunc(len, outs) ==
    Construct("FastIterator::new_func", <<len, outs>>, FastIterator_new_func(len, outs))
MatrixNewFill(rows, columns, v) ==
    Construct("FastMatrix::new", <<rows, columns, v>>, FastMatrix_new(rows, columns, v))
MatrixNewDefault(rows, columns) ==
    Construct("FastMatrix::new_default", <<rows, columns>>, FastMatrix_new_default(rows, columns))
MatrixNewFunc(rows, columns, g) ==
    Construct("FastMatrix::new_func", <<rows, columns, g>>, FastMatrix_new_func(rows, columns, g))
MatrixNewEmpty(rows, columns) ==
    Construct("FastMatrix::new_empty", <<rows, columns>>, FastMatrix_new_empty(rows, columns))

\* the outputs of a generator function, one per run
GenOutputs == [1..MaxSortLen -> Vals]

CtorInit == MemInit /\ arr = <<>> /\ mat = <<>> /\ res = NoCall

CtorNext ==
    \/ res = NoCall /\ \E len \in 0..MaxSortLen, v \in Vals : ArrayNew(len, v)
    \/ res = NoCall /\ \E len \in 0..MaxSortLen : ArrayNewDefault(len)
    \/ res = NoCall /\ \E len \in 0..MaxSortLen, outs \in GenOutputs : ArrayNewFunc(len, outs)
    \/ res = NoCall /\ \E len \in 0..MaxSortLen : ArrayNewEmpty(len)
    \/ res = NoCall /\ \E len \in 0..MaxSortLen, outs \in GenOutputs : IterNewFunc(len, outs)
    \/ res = NoCall /\ \E rows, columns \in 0..MaxDim, v \in Entries : MatrixNewFill(rows, columns, v)
    \/ res = NoCall /\ \E rows, columns \in 0..MaxDim : MatrixNewDefault(rows, columns)
    \/ res = NoCall /\ \E rows, columns \in 0..MaxDim, g \in MatGens : MatrixNewFunc(rows, columns, g)
    \/ res = NoCall /\ \E rows, columns \in 0..MaxDim : MatrixNewEmpty(rows, columns)

\* every constructor, called once with every length / shape from zero up
SpecCtor == CtorInit /\ [][CtorNext]_vars

\* ----------------------------------------------------------- claims C11, C12
ArrayCtors == {"FastArray::new", "FastArray::new_default", "FastArray::new_func",
               "FastArray::new_empty", "FastIterator::new_func"}
MatrixCtors == {"FastMatrix::new", "FastMatrix::new_default", "FastMatrix::new_func",
                "FastMatrix::new_empty"}

\* C11: a checked constructor called with length zero, or with rows or columns zero,
\* fails fatally at its assertion and returns no container.
C11_ZeroIsFatal ==
    /\ (res.op \in ArrayCtors /\ res.args[1] = 0) =>
          (res.panic /\ ~res.ub /\ res.made = <<>> /\ arr = <<>>)
    /\ (res.op \in MatrixCtors /\ (res.args[1] = 0 \/ res.args[2] = 0)) =>
          (res.panic /\ ~res.ub /\ res.made = <<>> /\ mat = <<>>)

\* C12: for len > 0, new(len, v) returns an array of length len with v in every slot,
\* and new_func(len, f) runs f exactly len times and stores its k-th output in slot
\* k - 1.
C12_FilledInOrder ==
    /\ (res.op = "FastArray::new" /\ res.args[1] > 0) =>
          /\ ~res.panic /\ arr # <<>>
          /\ FastArray_len(arr) = res.args[1]
          /\ DOMAIN arr.data = 1..res.args[1]
          /\ \A k \in 1..res.args[1] : arr.data[k] = res.args[2]
    /\ (res.op = "FastArray::new_func" /\ res.args[1] > 0) =>
          /\ ~res.panic /\ arr # <<>>
          /\ FastArray_len(arr) = res.args[1]
          /\ DOMAIN arr.data = 1..res.args[1]
          /\ \A k \in 1..res.args[1] : arr.data[k] = res.args[2][k]
          /\ res.calls = res.args[1]

\* a generator whose outputs differ from one run to the next, at the greatest length
C12_Witness ==
    /\ res.op = "FastArray::new_func" /\ res.args[1] = MaxSortLen /\ ~res.panic
    /\ res.args[2][1] # res.args[2][MaxSortLen]
    /\ arr.data[1] = res.args[2][1] /\ arr.data[MaxSortLen] = res.args[2][MaxSortLen]
    /\ res.calls = MaxSortLen

\* ------------------------------------------- transpose, get_row, get_column
\* what a closure returns when it reads an element: the clone of m[(r, c)], or the
\* panic of the accessor
Elem(m, r, c) ==
    LET x == matrix_index(m, r, c)
    IN IF x.panic THEN [panic |-> TRUE, val |-> "none"]
       ELSE [panic |-> FALSE, val |-> m.data[x.slot + 1]]

\* the cells of a rows x columns matrix in the order of the loops
\* `for row_i in 0..rows { for col_i in 0..columns { .. } }`
CellRow(n, columns) == n \div columns
CellCol(n, columns) == n % columns

\* the loops of new_func_unchecked from cell n on, as they would be with the row
\* stride taken from rows
RECURSIVE StoreLoopRowsStride(_, _, _, _, _)
StoreLoopRowsStride(st, n, rows, columns, func) ==
    IF n >= rows * columns \/ st.panic THEN st
    ELSE LET row_i == CellRow(n, columns)
             col_i == CellCol(n, columns)
             v == func[<<row_i, col_i>>]
             slot == row_i * rows + col_i
         IN IF v.panic THEN [st EXCEPT !.panic = TRUE]
            ELSE StoreLoopRowsStride(
                    [st EXCEPT !.data = IF slot + 1 \in DOMAIN st.data
                                        THEN [st.data EXCEPT ![slot + 1] = v.val]
                                        ELSE st.data],
                    n + 1, rows, columns, func)

FastMatrix_new_func_unchecked_rows_stride(rows, columns, func) ==
    LET st == StoreLoopRowsStride([data |-> Zeroed(rows * columns), panic |-> FALSE],
                                  0, rows, columns, func)
    IN IF st.panic THEN [panic |-> TRUE, made |-> <<>>]
       ELSE [panic |-> FALSE,
             made |-> <<[rows |-> rows, columns |-> columns, data |-> st.data]>>]

\* the loops of FastMatrix::new_func_unchecked from cell n on:
\* `*pointer.add(row_i * columns + col_i) = func((row_i, col_i))`
RECURSIVE StoreLoop(_, _, _, _, _)
StoreLoop(st, n, rows, columns, func) ==
    IF n >= rows * columns \/ st.panic THEN st
    ELSE LET row_i == CellRow(n, columns)
             col_i == CellCol(n, columns)
             v == func[<<row_i, col_i>>]
         IN IF v.panic THEN [st EXCEPT !.panic = TRUE]
            ELSE StoreLoop([st EXCEPT !.data[row_i * columns + col_i + 1] = v.val],
                           n + 1, rows, columns, func)

\* FastMatrix::new_func_unchecked; func[<<row, col>>] is what func((row, col)) returns
FastMatrix_new_func_unchecked(rows, columns, func) ==
    LET st == StoreLoop([data |-> Zeroed(rows * columns), panic |-> FALSE],
                        0, rows, columns, func)
    IN IF st.panic THEN [panic |-> TRUE, made |-> <<>>]
       ELSE [panic |-> FALSE,
             made |-> <<[rows |-> rows, columns |-> columns, data |-> st.data]>>]

\* transpose as it would be with the closure reading self[(row, col)]
transpose_not_swapped(m) ==
    FastMatrix_new_func_unchecked(m.rows, m.columns,
        [rc \in (0..(m.rows - 1)) \X (0..(m.columns - 1)) |-> Elem(m, rc[1], rc[2])])

\* FastMatrix::transpose
transpose(m) ==
    FastMatrix_new_func_unchecked(m.columns, m.rows,
        [rc \in (0..(m.columns - 1)) \X (0..(m.rows - 1)) |-> Elem(m, rc[2], rc[1])])

\* the loop of FastArray::new_func_unchecked from slot i on; func[i] is what the
\* closure returns for slot i
RECURSIVE IndexedWriteLoop(_, _, _, _)
IndexedWriteLoop(st, i, len, func) ==
    IF i >= len \/ st.panic THEN st
    ELSE IF func[i].panic THEN [st EXCEPT !.panic = TRUE]
    ELSE IndexedWriteLoop([st EXCEPT !.data[i + 1] = func[i].val], i + 1, len, func)

\* FastArray::new_func_unchecked as get_row and get_column call it
FastArray_new_func_unchecked(len, func) ==
    LET st == IndexedWriteLoop([data |-> Uninit(len), panic |-> FALSE], 0, len, func)
    IN IF st.panic THEN [panic |-> TRUE, made |-> <<>>]
       ELSE [panic |-> FALSE, made |-> <<[size |-> len, data |-> st.data]>>]

\* FastMatrix::get_row as it would be reading down the column
get_row_strided(m, row) ==
    IF ~(m.rows > row) THEN [panic |-> TRUE, made |-> <<>>]
    ELSE FastArray_new_func_unchecked(m.columns,
            [i \in 0..(m.columns - 1) |-> Elem(m, i, row)])

\* FastMatrix::get_row
get_row(m, row) ==
    IF ~(m.rows > row) THEN [panic |-> TRUE, made |-> <<>>]
    ELSE FastArray_new_func_unchecked(m.columns,
            [i \in 0..(m.columns - 1) |-> Elem(m, row, i)])

\* FastMatrix::get_column: the new array is given the length self.columns
get_column(m, column) ==
    IF ~(m.columns > column) THEN [panic |-> TRUE, made |-> <<>>]
    ELSE FastArray_new_func_unchecked(m.columns,
            [i \in 0..(m.columns - 1) |-> Elem(m, i, column)])

\* m.transpose()
Transpose ==
    /\ res = NoCall /\ mat # <<>>
    /\ LET t == transpose(mat)
       IN res' = [op |-> "transpose", args |-> <<>>, pre |-> mat, panic |-> t.panic,
                  ret |-> t.made]
    /\ UNCHANGED <<arr, mat, memVars>>

\* m.transpose().transpose()
TransposeTwice ==
    /\ res = NoCall /\ mat # <<>>
    /\ LET t == transpose(mat)
           u == IF t.panic THEN t ELSE transpose(t.made[1])
       IN res' = [op |-> "transpose_twice", args |-> <<>>, pre |-> mat, panic |-> u.panic,
                  ret |-> u.made]
    /\ UNCHANGED <<arr, mat, memVars>>

\* m.get_row(row)
GetRow(row) ==
    /\ res = NoCall /\ mat # <<>>
    /\ LET g == get_row(mat, row)
       IN res' = [op |-> "get_row", args |-> <<row>>, pre |-> mat, panic |-> g.panic,
                  ret |-> g.made]
    /\ UNCHANGED <<arr, mat, memVars>>

\* m.get_column(column)
GetColumn(column) ==
    /\ res = NoCall /\ mat # <<>>
    /\ LET g == get_column(mat, column)
       IN res' = [op |-> "get_column", args |-> <<column>>, pre |-> mat, panic |-> g.panic,
                  ret |-> g.made]
    /\ UNCHANGED <<arr, mat, memVars>>

\* the matrices FastMatrix::new_func builds, up to one row / column more than MaxDim
MaxWide == MaxDim + 1
GeneratedMatrices ==
    {FastMatrix_new_func(rows, columns, g).made[1] :
        rows \in 1..MaxWide, columns \in 1..MaxWide, g \in MatGens}

\* every matrix value up to MaxDim x MaxDim, and the generated ones
MatInit ==
    /\ MemInit
    /\ arr = <<>>
    /\ mat \in MatrixValues \cup GeneratedMatrices
    /\ res = NoCall

MatNext ==
    \/ Transpose
    \/ TransposeTwice
    \/ \E row \in 0..MaxWide : GetRow(row)
    \/ \E column \in 0..MaxWide : GetColumn(column)

\* one call that reads a matrix value and builds a new container from it
SpecMat == MatInit /\ [][MatNext]_vars

\* ------------------------------------------------------ claims C13, C14, C20
\* the element of the matrix value m at (r, c)
At(m, r, c) == m.data[r * m.columns + c + 1]

\* C13: transpose() of a rows x columns matrix m returns a columns x rows matrix t with
\* t[(c, r)] = m[(r, c)] for every valid (r, c), and leaves m as it was.
C13_TransposeSwapsCoordinates ==
    res.op = "transpose" =>
        /\ ~res.panic /\ Len(res.ret) = 1
        /\ res.ret[1].rows = res.pre.columns /\ res.ret[1].columns = res.pre.rows
        /\ DOMAIN res.ret[1].data = 1..(res.pre.rows * res.pre.columns)
        /\ \A r \in 0..(res.pre.rows - 1), c \in 0..(res.pre.columns - 1) :
              At(res.ret[1], c, r) = At(res.pre, r, c)
        /\ mat = res.pre

\* a matrix that is not square and not constant
C13_Witness ==
    /\ res.op = "transpose" /\ ~res.panic
    /\ res.pre.rows # res.pre.columns
    /\ \E i, j \in DOMAIN res.pre.data : res.pre.data[i] # res.pre.data[j]
    /\ res.ret[1].data # res.pre.data

\* C14: transposing twice gives back a matrix with the rows, the columns and the
\* element at every coordinate of m, square or not.
C14_TransposeInvolution ==
    res.op = "transpose_twice" =>
        /\ ~res.panic /\ Len(res.ret) = 1
        /\ res.ret[1].rows = res.pre.rows /\ res.ret[1].columns = res.pre.columns
        /\ \A r \in 0..(res.pre.rows - 1), c \in 0..(res.pre.columns - 1) :
              At(res.ret[1], r, c) = At(res.pre, r, c)

C14_Witness ==
    /\ res.op = "transpose_twice" /\ ~res.panic
    /\ res.pre.rows # res.pre.columns /\ res.pre.rows > 1 /\ res.pre.columns > 1
    /\ \E i, j \in DOMAIN res.pre.data : res.pre.data[i] # res.pre.data[j]
    /\ res.ret[1] = res.pre

\* C20: get_row(r) with r < rows returns a new array of length columns whose j-th
\* element is m[(r, j)], get_column(c) with c < columns returns a new array of length
\* rows whose i-th element is m[(i, c)], and m is unchanged by either call.
C20_RowAndColumnCopies ==
    /\ (res.op = "get_row" /\ res.args[1] < res.pre.rows) =>
          /\ ~res.panic /\ Len(res.ret) = 1
          /\ res.ret[1].size = res.pre.columns
          /\ DOMAIN res.ret[1].data = 1..res.pre.columns
          /\ \A j \in 0..(res.pre.columns - 1) :
                res.ret[1].data[j + 1] = At(res.pre, res.args[1], j)
          /\ mat = res.pre
    /\ (res.op = "get_column" /\ res.args[1] < res.pre.columns) =>
          /\ ~res.panic /\ Len(res.ret) = 1
          /\ res.ret[1].size = res.pre.rows
          /\ DOMAIN res.ret[1].data = 1..res.pre.rows
          /\ \A i \in 0..(res.pre.rows - 1) :
                res.ret[1].data[i + 1] = At(res.pre, i, res.args[1])
          /\ mat = res.pre

\* ---------------------------------------------------------------- claim C19
\* the last operation was into_fast_array on an iterator with k >= 1 values taken
\* from the front and at least one left
DrainedIntoArray ==
    /\ last.op = "into_fast_array"
    /\ last.pre.current_index[1] >= 1
    /\ last.pre.current_index[1] + last.pre.current_index[2] < last.pre.len

\* the elements in the slots of a buffer
SlotElems(b) == {heap[b].slots[i] : i \in DOMAIN heap[b].slots}

Abs(x) == IF x < 0 THEN 0 - x ELSE x
RECURSIVE Gcd(_, _)
Gcd(a, b) == IF b = 0 THEN a ELSE Gcd(b, a % b)
Frac(n, d) ==
    LET g == Gcd(Abs(n), Abs(d))
        sg == IF d < 0 THEN 0 - 1 ELSE 1
    IN <<(sg * n) \div g, (sg * d) \div g>>
FracOf(x) == <<x, 1>>
FracMul(p, q) == Frac(p[1] * q[1], p[2] * q[2])
FracDiv(p, q) == Frac(p[1] * q[2], p[2] * q[1])
FracSub(p, q) == Frac(p[1] * q[2] - q[1] * p[2], p[2] * q[2])
FracGt(p, q) == p[1] * q[2] > q[1] * p[2]

\* `for i in k + 1..n { if a[i * n + k] > a[pivot * n + k] { pivot = i } }` from i on
RECURSIVE PivotLoop(_, _, _, _, _)
PivotLoop(a, n, k, i, pivot) ==
    IF i >= n THEN pivot
    ELSE PivotLoop(a, n, k, i + 1,
                   IF FracGt(a[i * n + k + 1], a[pivot * n + k + 1]) THEN i ELSE pivot)

\* `for j in 0..n { ptr::swap(a + pivot * n + j, a + k * n + j) }` from j on
RECURSIVE SwapRowLoop(_, _, _, _, _)
SwapRowLoop(a, n, k, pivot, j) ==
    IF j >= n THEN a
    ELSE SwapRowLoop(PtrSwap(a, pivot * n + j, k * n + j), n, k, pivot, j + 1)

\* `for j in k..n { a[i * n + j] -= factor * a[k * n + j] }` from j on
RECURSIVE EliminateColLoop(_, _, _, _, _, _)
EliminateColLoop(a, n, k, i, factor, j) ==
    IF j >= n THEN a
    ELSE EliminateColLoop(
            [a EXCEPT ![i * n + j + 1] = FracSub(@, FracMul(factor, a[k * n + j + 1]))],
            n, k, i, factor, j + 1)

\* `for i in k + 1..n { let factor = a[i * n + k] / pivot_value; .. }` from i on
RECURSIVE EliminateRowLoop(_, _, _, _, _)
EliminateRowLoop(a, n, k, pivot_value, i) ==
    IF i >= n THEN a
    ELSE EliminateRowLoop(
            EliminateColLoop(a, n, k, i, FracDiv(a[i * n + k + 1], pivot_value), k),
            n, k, pivot_value, i + 1)

\* the loop `for k in 0..n` of determinant from k on; a is the buffer mat.pointer
\* addresses, det and sign the accumulators
RECURSIVE DetLoop(_, _, _, _, _)
DetLoop(a, n, k, det, sign) ==
    IF k >= n THEN [ret |-> FracMul(det, sign), data |-> a]
    ELSE LET pivot == PivotLoop(a, n, k, k + 1, k)
             a1 == IF pivot # k THEN SwapRowLoop(a, n, k, pivot, 0) ELSE a
             sign1 == IF pivot # k THEN FracMul(sign, FracOf(0 - 1)) ELSE sign
             pivot_value == a1[k * n + k + 1]
         IN IF pivot_value = FracOf(0) THEN [ret |-> FracOf(0), data |-> a1]
            ELSE DetLoop(EliminateRowLoop(a1, n, k, pivot_value, k + 1), n, k + 1,
                         FracMul(det, pivot_value), sign1)

\* FastMatrix::determinant on a matrix of fractions. `let mat = self.clone()` copies
\* the pointer, so the elimination works in the buffer of self, and the drop of mat on
\* return deallocates that buffer: data is the content it leaves there, freed says
\* that the buffer self addresses was deallocated.
determinant(m) ==
    IF ~(m.rows = m.columns)
    THEN [panic |-> TRUE, ret |-> <<>>, data |-> m.data, freed |-> FALSE]
    ELSE LET d == DetLoop(m.data, m.rows, 0, FracOf(1), FracOf(1))
         IN [panic |-> FALSE, ret |-> <<d.ret>>, data |-> d.data, freed |-> TRUE]

\* a matrix of numbers as a matrix of fractions
AsFracs(m) == [m EXCEPT !.data = [k \in DOMAIN m.data |-> FracOf(m.data[k])]]

\* m.determinant(); mat holds the numbers, the call works on them as fractions
Determinant ==
    /\ res = NoCall /\ mat # <<>>
    /\ LET d == determinant(AsFracs(mat))
       IN res' = [op |-> "determinant", args |-> <<>>, pre |-> mat, panic |-> d.panic,
                  ret |-> d.ret, data |-> d.data, freed |-> d.freed]
    /\ UNCHANGED <<arr, mat, memVars>>

\* square matrices with entries from -MaxEntry..MaxEntry
SignedEntries == (0 - MaxEntry)..MaxEntry
SignedSquares ==
    UNION {{[rows |-> n, columns |-> n, data |-> d] : d \in [1..(n * n) -> SignedEntries]} :
           n \in 1..MaxDim}
\* the matrix of the documentation of determinant, and the identity of every size
Identity(n) ==
    [rows |-> n, columns |-> n,
     data |-> [k \in 1..(n * n) |-> IF CellRow(k - 1, n) = CellCol(k - 1, n) THEN 1 ELSE 0]]
DetExamples ==
    {[rows |-> 2, columns |-> 2, data |-> <<1, 4, 2, 3>>]} \cup {Identity(n) : n \in 1..MaxWide}

DetInit ==
    /\ MemInit
    /\ arr = <<>>
    /\ mat \in SignedSquares \cup DetExamples \cup GeneratedMatrices
    /\ res = NoCall

DetNext == Determinant

SpecDet == DetInit /\ [][DetNext]_vars

\* ---------------------------------------------------------------- claim C15
\* the permutations of 1..n and their signs
Perms(n) == {p \in [1..n -> 1..n] : \A i, j \in 1..n : p[i] = p[j] => i = j}
Inversions(p, n) == Cardinality({ij \in (1..n) \X (1..n) : ij[1] < ij[2] /\ p[ij[1]] > p[ij[2]]})
Sgn(p, n) == IF Inversions(p, n) % 2 = 0 THEN 1 ELSE 0 - 1
RECURSIVE Prod(_, _, _)
Prod(m, p, i) == IF i = 0 THEN 1 ELSE At(m, i - 1, p[i] - 1) * Prod(m, p, i - 1)
RECURSIVE SumOver(_, _, _)
SumOver(m, ps, n) ==
    IF ps = {} THEN 0
    ELSE LET p == CHOOSE q \in ps : TRUE
         IN Sgn(p, n) * Prod(m, p, n) + SumOver(m, ps \ {p}, n)
\* the Leibniz formula
Leibniz(m) == SumOver(m, Perms(m.rows), m.rows)

\* C15: determinant() of a square matrix of integers, computed exactly, is the
\* determinant of the matrix by the Leibniz formula.
C15_DeterminantIsLeibniz ==
    (res.op = "determinant" /\ res.pre.rows = res.pre.columns) =>
        /\ ~res.panic
        /\ res.ret = <<FracOf(Leibniz(res.pre))>>

\* ------------------------------------------------ simd_add, simd_add_array
\* `type WideSimd<T> = Simd<T, 4>`: the vector has Lanes elements and is aligned to
\* its size, Lanes times the size of an element
Lanes == 4

\* An array given to the vector routines: size, data, and addr, the address of the
\* buffer start counted in elements, modulo Lanes (0 for a buffer allocated with the
\* 32-byte layout of new / new_func, any multiple of the element size for one
\* allocated with Layout::array by new_empty).
VecAligned(addr, i) == (addr + i) % Lanes = 0

\* a loop state: the buffer, the index i, the indices written so far, and whether a
\* vector was read or written through a pointer that is not aligned for it
LoopStart(data) == [data |-> data, i |-> 0, touched |-> <<>>, ub |-> FALSE,
                    prefix |-> 0, chunks |-> 0, tail |-> 0]

\* `while i < len && (pointer.add(i) as usize) % align_of::<WideSimd<T>>() != 0`
RECURSIVE AlignLoop(_, _, _, _)
AlignLoop(st, len, addr, other) ==
    IF ~(st.i < len /\ ~VecAligned(addr, st.i)) THEN st
    ELSE AlignLoop([st EXCEPT !.data[st.i + 1] = @ + other, !.i = @ + 1,
                              !.touched = Append(@, st.i), !.prefix = @ + 1],
                   len, addr, other)

\* `while i + lanes <= len` of simd_add: an aligned load of Lanes elements, the sum
\* with splat(other), an aligned store. The prefetch address pointer.add(i + 64) is
\* computed and handed to _mm_prefetch, which reads nothing and does not fault.
RECURSIVE VectorLoop(_, _, _, _)
VectorLoop(st, len, addr, other) ==
    IF ~(st.i + Lanes <= len) THEN st
    ELSE VectorLoop(
            [st EXCEPT !.data = [k \in DOMAIN st.data |->
                                    IF k - 1 \in st.i..(st.i + Lanes - 1)
                                    THEN st.data[k] + other ELSE st.data[k]],
                       !.i = @ + Lanes,
                       !.touched = @ \o [l \in 1..Lanes |-> st.i + l - 1],
                       !.ub = @ \/ ~VecAligned(addr, st.i),
                       !.chunks = @ + 1],
            len, addr, other)

\* `while i < len { *pointer.add(i) += other; i += 1 }`
RECURSIVE TailLoop(_, _, _)
TailLoop(st, len, other) ==
    IF ~(st.i < len) THEN st
    ELSE TailLoop([st EXCEPT !.data[st.i + 1] = @ + other, !.i = @ + 1,
                             !.touched = Append(@, st.i), !.tail = @ + 1],
                  len, other)

\* simd_add as it would be without the scalar cleanup
simd_add_no_cleanup(a, other) ==
    VectorLoop(AlignLoop(LoopStart(a.data), a.size, a.addr, other), a.size, a.addr, other)

\* FastArray::simd_add
simd_add(a, other) ==
    LET len == a.size
        s1 == AlignLoop(LoopStart(a.data), len, a.addr, other)
        s2 == VectorLoop(s1, len, a.addr, other)
    IN TailLoop(s2, len, other)

\* `while i + lanes <= len` of simd_add_array: both vectors are read with
\* from_slice, the sum is stored through `pointer.add(i) as *mut WideSimd<T>`
RECURSIVE PairVectorLoop(_, _, _, _)
PairVectorLoop(st, len, addr, b) ==
    IF ~(st.i + Lanes <= len) THEN st
    ELSE PairVectorLoop(
            [st EXCEPT !.data = [k \in DOMAIN st.data |->
                                    IF k - 1 \in st.i..(st.i + Lanes - 1)
                                    THEN st.data[k] + b.data[k] ELSE st.data[k]],
                       !.i = @ + Lanes,
                       !.touched = @ \o [l \in 1..Lanes |-> st.i + l - 1],
                       !.ub = @ \/ ~VecAligned(addr, st.i),
                       !.chunks = @ + 1],
            len, addr, b)

\* `while i < len { *p.add(i) = *p.add(i) + *other.pointer.add(i); i += 1 }`
RECURSIVE PairTailLoop(_, _, _)
PairTailLoop(st, len, b) ==
    IF ~(st.i < len) THEN st
    ELSE PairTailLoop([st EXCEPT !.data[st.i + 1] = @ + b.data[st.i + 1], !.i = @ + 1,
                                 !.touched = Append(@, st.i), !.tail = @ + 1],
                      len, b)

\* FastArray::simd_add_array
simd_add_array(a, b) ==
    IF a.size # b.size THEN [panic |-> TRUE, st |-> LoopStart(a.data)]
    ELSE [panic |-> FALSE,
          st |-> PairTailLoop(PairVectorLoop(LoopStart(a.data), a.size, a.addr, b),
                              a.size, b)]

\* A store through a misaligned vector pointer is undefined: the build either
\* performs it (an unaligned store instruction) or the process ends at the first
\* such store (the alignment check of a debug build, a fault of an aligned store).
VectorOutcomes(st) == IF st.ub THEN {"stored", "crashed"} ELSE {"done"}

\* a.simd_add(other)
SimdAdd(other) ==
    /\ arr # <<>>
    /\ LET st == simd_add(arr, other)
       IN \E o \in VectorOutcomes(st) :
             /\ arr' = IF o = "crashed" THEN arr ELSE [arr EXCEPT !.data = st.data]
             /\ res' = [op |-> "simd_add", args |-> <<other>>, pre |-> arr, panic |-> FALSE,
                        ub |-> st.ub, outcome |-> o, touched |-> st.touched,
                        prefix |-> st.prefix, chunks |-> st.chunks, tail |-> st.tail]
    /\ UNCHANGED <<mat, memVars>>

\* a.simd_add_array(&b)
SimdAddArray(b) ==
    /\ arr # <<>>
    /\ LET r == simd_add_array(arr, b)
       IN \E o \in VectorOutcomes(r.st) :
             /\ arr' = IF o = "crashed" \/ r.panic THEN arr ELSE [arr EXCEPT !.data = r.st.data]
             /\ res' = [op |-> "simd_add_array", args |-> <<b>>, pre |-> arr, panic |-> r.panic,
                        ub |-> r.st.ub, outcome |-> o, touched |-> r.st.touched,
                        prefix |-> r.st.prefix, chunks |-> r.st.chunks, tail |-> r.st.tail]
    /\ UNCHANGED <<mat, memVars>>

\* arrays of every length up to MaxSimdLen at every address, holding start,
\* start + step, start + 2 * step, ..
SimdArrays ==
    {[size |-> n, data |-> [j \in 1..n |-> start + (j - 1) * step], addr |-> addr] :
        n \in 1..MaxSimdLen, start \in Vals, step \in 0..1, addr \in 0..(Lanes - 1)}

SimdInit == MemInit /\ arr \in SimdArrays /\ mat = <<>> /\ res = NoCall

SimdNext ==
    \/ res = NoCall /\ \E other \in Vals : SimdAdd(other)
    \/ res = NoCall /\ \E b \in SimdArrays : SimdAddArray(b)

SpecSimd == SimdInit /\ [][SimdNext]_vars

\* ----------------------------------------------------------- claims C16, C17
\* C16: simd_add(k) leaves the length as it was and every element equal to its
\* original value plus k, for every length and every alignment of the buffer start:
\* the prefix, the chunks and the remainder write every index 0..len-1 exactly once.
C16_SimdAddCoversAll ==
    res.op = "simd_add" =>
        /\ ~res.ub /\ ~res.panic
        /\ arr.size = res.pre.size /\ DOMAIN arr.data = 1..res.pre.size
        /\ \A j \in 1..res.pre.size : arr.data[j] = res.pre.data[j] + res.args[1]
        /\ Len(res.touched) = res.pre.size
        /\ {res.touched[t] : t \in DOMAIN res.touched} = 0..(res.pre.size - 1)
        /\ res.prefix + Lanes * res.chunks + res.tail = res.pre.size

\* a call that runs all three phases
C16_Witness ==
    /\ res.op = "simd_add" /\ res.args[1] # 0
    /\ res.prefix > 0 /\ res.chunks > 0 /\ res.tail > 0
    /\ arr.data # res.pre.data

\* C17: a.simd_add_array(b) with equal lengths leaves a[i] = a[i] + b[i] for every i
\* and b as it was; with different lengths it fails fatally and changes nothing.
C17_SimdAddArrayPairwise ==
    /\ (res.op = "simd_add_array" /\ res.pre.size = res.args[1].size) =>
          /\ ~res.panic /\ ~res.ub /\ res.outcome = "done"
          /\ arr.size = res.pre.size
          /\ \A j \in 1..res.pre.size : arr.data[j] = res.pre.data[j] + res.args[1].data[j]
    /\ (res.op = "simd_add_array" /\ res.pre.size # res.args[1].size) =>
          /\ res.panic
          /\ arr = res.pre

\* ------------------------------------------------- PartialEq for FastArray
\* `for i in 0..len { if self[i] != other[i] { return false } } true` from i on
RECURSIVE EqLoop(_, _, _, _)
EqLoop(a, b, i, len) ==
    IF i >= len THEN [panic |-> FALSE, ret |-> TRUE]
    ELSE LET x == index(a, i)
             y == index(b, i)
         IN IF x.panic \/ y.panic THEN [panic |-> TRUE, ret |-> FALSE]
            ELSE IF a.data[x.slot + 1] # b.data[y.slot + 1] THEN [panic |-> FALSE, ret |-> FALSE]
            ELSE EqLoop(a, b, i + 1, len)

\* eq as it would be comparing the common prefix, without the test of the lengths
FastArray_eq_common_prefix(a, b) ==
    EqLoop(a, b, 0, Min(FastArray_len(a), FastArray_len(b)))

\* PartialEq::eq for FastArray
FastArray_eq(a, b) ==
    LET len == FastArray_len(a)
    IN IF len # FastArray_len(b) THEN [panic |-> FALSE, ret |-> FALSE]
       ELSE EqLoop(a, b, 0, len)

\* PartialEq::ne for FastArray
FastArray_ne(a, b) ==
    LET e == FastArray_eq(a, b)
    IN [panic |-> e.panic, ret |-> ~e.ret]

\* a == b and a != b
Compare(b) ==
    /\ arr # <<>>
    /\ res' = [op |-> "eq", args |-> <<b>>, pre |-> arr,
               panic |-> FastArray_eq(arr, b).panic \/ FastArray_ne(arr, b).panic,
               eq |-> FastArray_eq(arr, b).ret, ne |-> FastArray_ne(arr, b).ret]
    /\ UNCHANGED <<arr, mat, memVars>>

\* every array value of length 1..n
ArraysUpTo(n) == UNION {{[size |-> k, data |-> d] : d \in Seqs(k)} : k \in 1..n}

EqInit == MemInit /\ arr \in ArraysUpTo(MaxLen + 1) /\ mat = <<>> /\ res = NoCall

EqNext == res = NoCall /\ \E b \in ArraysUpTo(MaxLen + 1) : Compare(b)

SpecEq == EqInit /\ [][EqNext]_vars

\* ---------------------------------------------------------------- claim C18
\* C18: two arrays compare equal exactly when their lengths match and their elements
\* are equal at every index, and ne() is the negation of eq().
C18_EqIsPairwise ==
    res.op = "eq" =>
        /\ ~res.panic
        /\ res.eq <=> /\ res.pre.size = res.args[1].size
                      /\ \A i \in 1..res.pre.size : res.pre.data[i] = res.args[1].data[i]
        /\ res.ne <=> ~res.eq

\* one array is the other with an element more
C18_Witness ==
    /\ res.op = "eq" /\ ~res.eq /\ res.ne
    /\ res.pre.size + 1 = res.args[1].size
    /\ \A i \in 1..res.pre.size : res.pre.data[i] = res.args[1].data[i]

\* ------------------------------------------------- swap_rows, swap_columns
\* CalcIndex for (usize, usize): `self.0 * offset + self.1`
calc_index(self, offset) == self[1] * offset + self[2]

\* FastMatrix::swap_unchecked: ptr::swap of the slots the two indices address, with no
\* test of either index.  A slot outside the buffer is undefined behaviour: junk is
\* what the exchange reads there.
swap_unchecked(st, columns, index1, index2, junk) ==
    LET s1 == calc_index(index1, columns)
        s2 == calc_index(index2, columns)
        n == Len(st.data)
        seen == [st EXCEPT !.touched = @ \cup {s1, s2}]
    IN IF s1 < n /\ s2 < n THEN [seen EXCEPT !.data = PtrSwap(st.data, s1, s2)]
       ELSE [seen EXCEPT !.ub = TRUE,
                         !.data = [k \in DOMAIN st.data |->
                                      IF (k = s1 + 1 \/ k = s2 + 1) /\ s1 # s2
                                      THEN junk ELSE st.data[k]]]

\* `for i in 0..self.rows { self.swap_unchecked((i, column1), (i, column2)) }` from i on
RECURSIVE SwapColumnsLoop(_, _, _, _, _, _, _)
SwapColumnsLoop(st, i, rows, columns, column1, column2, junk) ==
    IF i >= rows THEN st
    ELSE SwapColumnsLoop(swap_unchecked(st, columns, <<i, column1>>, <<i, column2>>, junk),
                         i + 1, rows, columns, column1, column2, junk)

\* FastMatrix::swap_columns: the assertion compares column2 with self.rows
swap_columns(m, column1, column2, junk) ==
    LET st0 == [data |-> m.data, ub |-> FALSE, touched |-> {}]
    IN IF ~(column1 < m.columns /\ column2 < m.rows)
       THEN [panic |-> TRUE, st |-> st0]
       ELSE [panic |-> FALSE,
             st |-> SwapColumnsLoop(st0, 0, m.rows, m.columns, column1, column2, junk)]

\* `for i in 0..self.columns { self.swap_unchecked((row1, i), (row2, i)) }` from i on
RECURSIVE SwapRowsLoop(_, _, _, _, _)
SwapRowsLoop(st, i, columns, row1, row2) ==
    IF i >= columns THEN st
    ELSE SwapRowsLoop(swap_unchecked(st, columns, <<row1, i>>, <<row2, i>>, 0),
                      i + 1, columns, row1, row2)

\* FastMatrix::swap_rows
swap_rows(m, row1, row2) ==
    LET st0 == [data |-> m.data, ub |-> FALSE, touched |-> {}]
    IN IF ~(row1 < m.rows /\ row2 < m.rows)
       THEN [panic |-> TRUE, st |-> st0]
       ELSE [panic |-> FALSE, st |-> SwapRowsLoop(st0, 0, m.columns, row1, row2)]

\* m.swap_columns(column1, column2)
SwapColumns(column1, column2, junk) ==
    /\ res = NoCall /\ mat # <<>>
    /\ LET s == swap_columns(mat, column1, column2, junk)
       IN /\ res' = [op |-> "swap_columns", args |-> <<column1, column2>>, pre |-> mat,
                     panic |-> s.panic, ub |-> s.st.ub, touched |-> s.st.touched]
          /\ mat' = [mat EXCEPT !.data = s.st.data]
    /\ UNCHANGED <<arr, memVars>>

\* m.swap_rows(row1, row2)
SwapRows(row1, row2) ==
    /\ res = NoCall /\ mat # <<>>
    /\ LET s == swap_rows(mat, row1, row2)
       IN /\ res' = [op |-> "swap_rows", args |-> <<row1, row2>>, pre |-> mat,
                     panic |-> s.panic, ub |-> s.st.ub, touched |-> s.st.touched]
          /\ mat' = [mat EXCEPT !.data = s.st.data]
    /\ UNCHANGED <<arr, memVars>>

\* what an exchange with a slot outside the buffer can bring in
JunkValues == {0, MaxEntry + 1}

SwapLinesInit == MatInit

SwapLinesNext ==
    \/ res = NoCall /\ \E c1, c2 \in 0..MaxWide, junk \in JunkValues :
                           SwapColumns(c1, c2, junk)
    \/ res = NoCall /\ \E r1, r2 \in 0..MaxWide : SwapRows(r1, r2)

\* one exchange of two rows or two columns of a matrix value
SpecSwapLines == SwapLinesInit /\ [][SwapLinesNext]_vars

\* ---------------------------------------------------------------- claim C21
\* C21: on every rows x columns matrix, swap_columns(c1, c2) fails fatally exactly when
\* c1 >= columns or c2 >= columns; for in-range c1 and c2 it exchanges the two columns in
\* every row, leaves every other entry as it was and touches no slot outside the two
\* columns.
C21_SwapColumnsContract ==
    res.op = "swap_columns" =>
        LET c1 == res.args[1]
            c2 == res.args[2]
            rows == res.pre.rows
            columns == res.pre.columns
        IN /\ res.panic <=> (c1 >= columns \/ c2 >= columns)
           /\ ~res.panic =>
                /\ ~res.ub
                /\ mat.rows = rows /\ mat.columns = columns
                /\ \A r \in 0..(rows - 1), c \in 0..(columns - 1) :
                      At(mat, r, c) = At(res.pre, r,
                                         IF c = c1 THEN c2 ELSE IF c = c2 THEN c1 ELSE c)
                /\ res.touched \subseteq
                      {r * columns + c : r \in 0..(rows - 1), c \in {c1, c2}}

\* --------------------------------------------- sort() on the documented input
\* `fast_arr!(3,5,1,4,2)`, the array of the examples of sort and sort_by
DocExample == [size |-> 5, data |-> <<3, 5, 1, 4, 2>>]

SortDocInit ==
    /\ MemInit
    /\ arr \in ArrayValues \cup {DocExample}
    /\ mat = <<>>
    /\ res = NoCall

SortDocNext == \E f \in {"natural", "reverse"} : Sort(f)

\* one sort() or one sort_by(|a, b| b.cmp(&a)) of an array value
SpecSortDoc == SortDocInit /\ [][SortDocNext]_vars

\* ---------------------------------------------------------------- claim C22
\* every element of the array is >= the one after it
Descending(a) == \A i \in 1..(a.size - 1) : a.data[i] >= a.data[i + 1]

\* C22: sort() arranges the elements in descending order ([3,5,1,4,2] gives
\* [5,4,3,2,1]), the same result as sort_by with the comparator |a, b| b.cmp(&a).
C22_SortIsDescending ==
    res.op = "sort" =>
        /\ ~res.panic /\ ~res.diverged
        /\ Descending(arr)
        /\ arr = quicksort(res.pre, "reverse").a
        /\ res.pre = DocExample => arr.data = <<5, 4, 3, 2, 1>>

\* ------------------------------------------------------ Producer::split_at
\* Commit with the outcomes given by the caller
CommitWith(outs, newObjs, hp, eff, newOut, newOrigin, lg) ==
    \E st \in outs :
        /\ status' = st
        /\ last' = [lg EXCEPT !.eff = eff]
        /\ IF st = "crashed"
           THEN UNCHANGED <<heap, objs, fin, moved, out, origin>>
           ELSE /\ objs' = newObjs
                /\ heap' = HeapAfter(hp, eff.frees)
                /\ fin' = FinAfter(fin, hp, eff.fins)
                /\ moved' = MovedAfter(moved, eff.reads)
                /\ out' = newOut
                /\ origin' = newOrigin
        /\ UNCHANGED fnVars

\* FastIterator::new_func_unchecked(len, func) with func = || self.next().unwrap():
\* the buffer is allocated with no test of len, then filled with len values taken
\* from src; a next() that returns None ends the fill with a panic, the buffer and
\* what was written to it belonging to nobody.
FastIterator_new_func_unchecked(len, src, hp) ==
    LET d == Drain(src, hp, len)
        b == NewBuf(hp)
    IN [it    |-> [kind |-> "FastIterator", pointer |-> [b |-> b, off |-> 0], len |-> len,
                   current_index |-> <<0, 0>>],
        hp    |-> Alloc(hp, Layout32(len), d.vals),
        reads |-> d.reads,
        src   |-> d.it,
        panic |-> d.none,
        ub    |-> len = 0]

\* Producer::split_at for FastIterator: `len = self.len`, first takes index values
\* and second takes len - index values from self, which is dropped when the call
\* returns or unwinds (after first, when the panic comes while second is filled)
split_at(self, idx, hp) ==
    LET len == self.len
        f == FastIterator_new_func_unchecked(idx, self, hp)
        s == FastIterator_new_func_unchecked(len - idx, f.src, f.hp)
    IN IF f.panic
       THEN [panic |-> TRUE, ub |-> f.ub, made |-> <<>>, hp |-> f.hp,
             eff |-> Cat([NoEffects EXCEPT !.reads = f.reads], DropFastIterator(f.src))]
       ELSE IF s.panic
       THEN [panic |-> TRUE, ub |-> f.ub \/ s.ub, made |-> <<>>, hp |-> s.hp,
             eff |-> Cat([NoEffects EXCEPT !.reads = f.reads \o s.reads],
                         Cat(DropFastIterator(f.it), DropFastIterator(s.src)))]
       ELSE [panic |-> FALSE, ub |-> f.ub \/ s.ub, made |-> <<f.it, s.it>>, hp |-> s.hp,
             eff |-> Cat([NoEffects EXCEPT !.reads = f.reads \o s.reads],
                         DropFastIterator(s.src))]

\* (first, second) = it.split_at(index): first keeps the name h, second is named g
SplitAt(h, g, idx) ==
    /\ Running /\ objs[h].kind = "FastIterator"
    /\ FirstFree(g)
    /\ Room(heap)
    /\ LET c == split_at(objs[h], idx, heap)
           outs == IF c.ub \/ ~Defined(c.hp, fin, moved, c.eff) THEN {"ub", "crashed"}
                   ELSE {status}
       IN CommitWith(outs,
                     IF c.panic THEN [objs EXCEPT ![h] = NoObj]
                     ELSE [objs EXCEPT ![h] = c.made[1], ![g] = c.made[2]],
                     c.hp, c.eff,
                     [out EXCEPT ![h] = <<>>, ![g] = <<>>], origin,
                     [Log("split_at", h, <<idx, g>>) EXCEPT !.panic = c.panic])

NextSplit ==
    \/ \E h \in Handles, len \in 1..MaxLen : NewFunc(h, len)
    \/ \E h \in Handles : AsFastIterator(h)
    \/ \E h \in Handles : Next_(h)
    \/ \E h, g \in Handles, idx \in 0..MaxLen : SplitAt(h, g, idx)
    \/ \E h \in Handles : Drop(h)

\* arrays, the iterators made from them, and the two halves of a split iterator
SpecSplit == Init /\ [][NextSplit]_vars

\* ---------------------------------------------------------------- claim C23
\* the elements the iterator last.pre had not yet returned, in slot order
Unconsumed ==
    SubSeq(heap[last.pre.pointer.b].slots, last.pre.current_index[1] + 1, last.pre.len)

\* C23: split_at(index), for every index from 0 to the remaining length and whether or
\* not elements were consumed before, gives two iterators that together own every
\* unconsumed element exactly once: the first holds the first index of them in order,
\* the second the rest in order, each in a buffer of its own, and nothing is finalized
\* or owned twice.
C23_SplitPartitionsOnce ==
    (last.op = "split_at" /\ last.ret[1] <= Remaining(last.pre)) =>
        LET h == last.h
            g == last.ret[2]
            idx == last.ret[1]
        IN /\ status = "ok" /\ ~last.panic
           /\ IsIter(h) /\ IsIter(g)
           /\ objs[h].len = idx /\ objs[g].len = Remaining(last.pre) - idx
           /\ objs[h].current_index = <<0, 0>> /\ objs[g].current_index = <<0, 0>>
           /\ ElemsOf(heap, objs[h].pointer, objs[h].len) \o
                 ElemsOf(heap, objs[g].pointer, objs[g].len) = Unconsumed
           /\ Cardinality({objs[h].pointer.b, objs[g].pointer.b, last.pre.pointer.b}) = 3
           /\ last.eff.fins = <<>>
           /\ \A i \in DOMAIN Unconsumed : fin[Unconsumed[i]] = 0

\* ---------------------------------------------------------------- claim C24
\* C24: every buffer is deallocated with the layout it was allocated with (the same
\* element count and the same 32-byte alignment), whichever constructor allocated it
\* and whichever container frees it after the conversions.
C24_FreedWithAllocLayout ==
    \A b \in Bufs : \A i \in DOMAIN heap[b].freed_with :
        heap[b].freed_with[i] = heap[b].layout

\* ---------------------------------------------------------------- claim C25
\* C25: in every reachable state of a consuming iterator, consumed_from_front +
\* consumed_from_back <= length, whatever calls of next() and next_back() were made,
\* those made after exhaustion included.
C25_CursorsWithinLength ==
    \A h \in Handles : IsIter(h) =>
        objs[h].current_index[1] + objs[h].current_index[2] <= objs[h].len

\* ------------------------------------- constructors that fill by assignment
\* a buffer as the allocator returned it: no slot written yet, nothing dropped
Fresh(data) == [data |-> data, init |-> {}, dropped |-> <<>>]

\* `*pointer.add(slot) = v` and `container[slot] = v`: an assignment drops the value
\* the place held and then stores v; init is the set of slots written before
Assign(st, slot, v) ==
    [data    |-> [st.data EXCEPT ![slot + 1] = v],
     init    |-> st.init \cup {slot},
     dropped |-> Append(st.dropped, [slot |-> slot, init |-> slot \in st.init])]

\* the assignments of vals[1], .., vals[len] to the slots 0 .. len - 1, from slot i on
RECURSIVE AssignLoop(_, _, _, _)
AssignLoop(st, i, len, vals) ==
    IF i >= len THEN st
    ELSE AssignLoop(Assign(st, i, vals[i + 1]), i + 1, len, vals)

\* the result of a filling constructor: the container and what its stores dropped
Filled(x, st, ub) ==
    [panic |-> FALSE, ub |-> ub, made |-> <<x>>, init |-> st.init, dropped |-> st.dropped]
NotFilled == [panic |-> TRUE, ub |-> FALSE, made |-> <<>>, init |-> {}, dropped |-> <<>>]

\* FromIterator for FastArray: new_empty(size), then `array[index] = item`
from_iter(items) ==
    LET size == Len(items)
        e == FastArray_new_empty(size)
    IN IF e.panic THEN NotFilled
       ELSE LET st == AssignLoop(Fresh(e.made[1].data), 0, size, items)
            IN Filled([size |-> size, data |-> st.data], st, FALSE)

\* FastMatrix::new_unchecked: alloc_zeroed, then `*pointer.add(i) = fill_value.clone()`
FastMatrix_new_unchecked(rows, columns, fill_value) ==
    LET n == rows * columns
        st == AssignLoop(Fresh(Zeroed(n)), 0, n, [k \in 1..n |-> fill_value])
    IN Filled([rows |-> rows, columns |-> columns, data |-> st.data], st, n = 0)

\* the stores of FastMatrix::new_func:
\* `*pointer.add(row_i * columns + col_i) = func((row_i, col_i))`
FastMatrix_new_func_stores(rows, columns, g) ==
    LET r == FastMatrix_new_func(rows, columns, g)
        n == rows * columns
    IN IF r.panic THEN NotFilled
       ELSE Filled(r.made[1], AssignLoop(Fresh(Zeroed(n)), 0, n, r.made[1].data), r.ub)

\* From<Vec<Vec<T>>> for FastMatrix: the inner lengths are compared with the first,
\* then new_empty(rows, columns) and `fast_matrix[(x, y)] = value[x][y].clone()`
from_vec_vec(value) ==
    LET rows == Len(value)
        columns == IF rows = 0 THEN 0 ELSE Len(value[1])
        e == FastMatrix_new_empty(rows, columns)
        n == rows * columns
    IN IF \E x \in 1..rows : Len(value[x]) # columns THEN NotFilled
       ELSE IF e.panic THEN NotFilled
       ELSE LET st == AssignLoop(Fresh(e.made[1].data), 0, n,
                         [k \in 1..n |-> value[CellRow(k - 1, columns) + 1][CellCol(k - 1, columns) + 1]])
            IN Filled([rows |-> rows, columns |-> columns, data |-> st.data], st, e.ub)

\* FastMatrix::into_nested_arrays: FastArray::new_empty(self.rows), then
\* `fast_arr_outer[i] = self.get_row(i)`
into_nested_arrays(m) ==
    LET e == FastArray_new_empty(m.rows)
    IN IF e.panic \/ \E i \in 0..(m.rows - 1) : get_row(m, i).panic THEN NotFilled
       ELSE LET st == AssignLoop(Fresh(e.made[1].data), 0, m.rows,
                                 [k \in 1..m.rows |-> get_row(m, k - 1).made[1]])
            IN Filled([size |-> m.rows, data |-> st.data], st, FALSE)

\* one call of a filling constructor or conversion
Fill(op, args, r) ==
    /\ res' = [op |-> op, args |-> args, panic |-> r.panic, ub |-> r.ub, made |-> r.made,
               init |-> r.init, dropped |-> r.dropped]
    /\ UNCHANGED <<arr, mat, memVars>>

FromIter(items) == Fill("from_iter", <<items>>, from_iter(items))
MatrixNewUnchecked(rows, columns, v) ==
    Fill("FastMatrix::new_unchecked", <<rows, columns, v>>,
         FastMatrix_new_unchecked(rows, columns, v))
MatrixNewFuncStores(rows, columns, g) ==
    Fill("FastMatrix::new_func", <<rows, columns, g>>,
         FastMatrix_new_func_stores(rows, columns, g))
FromVecVec(value) == Fill("from_vec_vec", <<value>>, from_vec_vec(value))
IntoNestedArrays == mat # <<>> /\ Fill("into_nested_arrays", <<mat>>, into_nested_arrays(mat))

\* the rows of a matrix value as a Vec<Vec<T>>, and one whose rows differ in length
Nested(m) == [r \in 1..m.rows |-> SubSeq(m.data, (r - 1) * m.columns + 1, r * m.columns)]
VecVecs == {Nested(m) : m \in MatrixValues} \cup {<< <<0>>, <<0, 1>> >>, <<>>}
\* what an iterator yields before it is collected
ItemSeqs == {<<>>} \cup UNION {Seqs(k) : k \in 1..MaxSortLen}

FillInit == MemInit /\ arr = <<>> /\ mat \in MatrixValues /\ res = NoCall

FillNext ==
    \/ res = NoCall /\ \E items \in ItemSeqs : FromIter(items)
    \/ res = NoCall /\ \E rows, columns \in 0..MaxDim, v \in Entries :
                           MatrixNewUnchecked(rows, columns, v)
    \/ res = NoCall /\ \E rows, columns \in 0..MaxDim, g \in MatGens :
                           MatrixNewFuncStores(rows, columns, g)
    \/ res = NoCall /\ \E value \in VecVecs : FromVecVec(value)
    \/ res = NoCall /\ IntoNestedArrays

\* one constructor or conversion that fills a new buffer by assignment
SpecFill == FillInit /\ [][FillNext]_vars

\* ---------------------------------------------------------------- claim C26
\* C26: no constructor or conversion finalizes or reads a slot that was never
\* initialized: from_iter, FastMatrix::new_func / new_unchecked, From<Vec<Vec<T>>> and
\* into_nested_arrays write every slot exactly once without the previous content
\* being dropped, and return a container with every slot initialized.
C26_NoUninitializedDrop ==
    (res.op # "none" /\ ~res.panic) =>
        /\ res.dropped = <<>>
        /\ Len(res.made) = 1
        /\ res.init = {k - 1 : k \in DOMAIN res.made[1].data}

\* ---------------------------------------------------------------- claim C27
\* C27: determinant() leaves the matrix it is called on unchanged: rows, columns and
\* every element are as before, the buffer is still allocated and owned by self, and
\* a second call returns the same value.
C27_DeterminantLeavesSelf ==
    (res.op = "determinant" /\ ~res.panic) =>
        /\ res.data = AsFracs(res.pre).data
        /\ ~res.freed
        /\ determinant([AsFracs(res.pre) EXCEPT !.data = res.data]).ret = res.ret

\* ------------------------------------------------- PartialEq for FastMatrix
\* FastMatrix::iter: the columns * rows elements from the pointer on, in slot order
FastMatrix_iter(m) == [k \in 1..(m.columns * m.rows) |-> m.data[k]]

\* `zip(..).all(|(a, b)| a == b)` from pair i on: zip ends with the shorter iterator
RECURSIVE ZipAll(_, _, _)
ZipAll(xs, ys, i) ==
    IF i > Len(xs) \/ i > Len(ys) THEN TRUE
    ELSE IF ~(xs[i] = ys[i]) THEN FALSE
    ELSE ZipAll(xs, ys, i + 1)

\* PartialEq::eq for FastMatrix
FastMatrix_eq(a, b) == ZipAll(FastMatrix_iter(a), FastMatrix_iter(b), 1)
\* PartialEq::ne for FastMatrix
FastMatrix_ne(a, b) == ~FastMatrix_eq(a, b)

\* mat == b and mat != b
MatrixCompare(b) ==
    /\ mat # <<>>
    /\ res' = [op |-> "matrix_eq", args |-> <<b>>, pre |-> mat, panic |-> FALSE,
               eq |-> FastMatrix_eq(mat, b), ne |-> FastMatrix_ne(mat, b)]
    /\ UNCHANGED <<arr, mat, memVars>>

MatEqInit == MatInit

MatEqNext == res = NoCall /\ \E b \in MatrixValues \cup GeneratedMatrices : MatrixCompare(b)

\* one comparison of two matrix values
SpecMatEq == MatEqInit /\ [][MatEqNext]_vars

\* ---------------------------------------------------------------- claim C28
\* C28: two matrices compare equal only if they have the same number of rows, the same
\* number of columns and equal elements at every coordinate; matrices of different
\* shape never compare equal.
C28_MatrixEqNeedsShape ==
    res.op = "matrix_eq" =>
        LET a == res.pre
            b == res.args[1]
        IN /\ res.eq =>
                /\ a.rows = b.rows /\ a.columns = b.columns
                /\ \A r \in 0..(a.rows - 1), c \in 0..(a.columns - 1) : At(a, r, c) = At(b, r, c)
           /\ res.ne = ~res.eq

\* ---------------------------------------------------------------- claim C29
\* how many slots of the array hold the value v
Occurrences(a, v) == Cardinality({i \in DOMAIN a.data : a.data[i] = v})

\* C29: sort() and sort_by() only permute the array: after the call it has the same
\* length and the same multiset of elements as before, no swap having been asked for
\* an index outside 0..len-1.
C29_SortPermutes ==
    res.op \in {"sort", "sort_by"} =>
        /\ ~res.panic
        /\ arr.size = res.pre.size
        /\ DOMAIN arr.data = DOMAIN res.pre.data
        /\ \A v \in Vals : Occurrences(arr, v) = Occurrences(res.pre, v)

\* an array of the greatest length that holds a value twice and is moved by sort()
C29_Witness ==
    /\ res.op = "sort" /\ ~res.panic
    /\ res.pre.size = MaxSortLen
    /\ \E v \in Vals : Occurrences(res.pre, v) >= 2
    /\ \E v \in Vals : Occurrences(res.pre, v) = 0
    /\ arr # res.pre
    /\ \A v \in Vals : Occurrences(arr, v) = Occurrences(res.pre, v)

\* ---------------------------------------------------------------- claim C30
\* C30: the quicksort recursion terminates for every array of length >= 1: although
\* partition always runs on the range that starts at index 0, every recursive call is
\* made on a range shorter than its caller's, and no call indexes outside 0..len-1.
C30_QuicksortTerminates ==
    res.op \in {"sort", "sort_by"} =>
        /\ ~res.diverged
        /\ ~res.grew
        /\ ~res.panic

\* a non-increasing array of the greatest length, not all equal, sorted by sort()
C30_Witness ==
    /\ res.op = "sort" /\ ~res.diverged /\ ~res.panic
    /\ res.pre.size = MaxSortLen
    /\ \A i \in 1..(MaxSortLen - 1) : res.pre.data[i] >= res.pre.data[i + 1]
    /\ res.pre.data[1] > res.pre.data[MaxSortLen]
    /\ \A i \in 1..(MaxSortLen - 1) : arr.data[i] <= arr.data[i + 1]

====
